---- MODULE Spec2Model ----
(***************************************************************************)
(* A model of map-to-europass-credential: the controlled-vocabulary        *)
(* validators (controlled_vocabularies.rs), the extraction of a SISU       *)
(* attainment from its JSON record (sisu_attainment.rs, lib.rs) and the    *)
(* mapping to a Europass credential (to_europass_credential), and the      *)
(* credentials of the learning model (europass_learning_model.rs).         *)
(*                                                                         *)
(* Rust strings are TLA+ strings; a character is a string of length one.   *)
(* Every string of the model is ASCII.                                     *)
(***************************************************************************)
EXTENDS Integers, Sequences, FiniteSets, TLC

VARIABLES
  fn,      \* the operation the caller invoked last
  arg,     \* the argument it was invoked with
  ret,     \* what the caller got back from it
  source,  \* the JSON source record the caller holds
  pool,    \* the Europass credentials built so far, in the order they were built
  built    \* the structs of the learning model of which a value was built

vars == <<fn, arg, ret, source, pool, built>>

----------------------------------------------------------------------------
(* Results.  Result<T, E> is Ok(v) or Err(e); a panic unwinds out of the   *)
(* call and hands the caller no value at all.                              *)

Ok(v) == [ok |-> TRUE, val |-> v]

Err(e) == [ok |-> FALSE, err |-> e]

Panic(msg) == [panic |-> msg]

IsOk(r) == "ok" \in DOMAIN r /\ r.ok

IsErr(r) == "ok" \in DOMAIN r /\ ~r.ok

IsPanic(r) == "panic" \in DOMAIN r

----------------------------------------------------------------------------
(* Strings *)

CharAt(s, i) == SubSeq(s, i, i)

UpperAZ == "ABCDEFGHIJKLMNOPQRSTUVWXYZ"

LowerAZ == "abcdefghijklmnopqrstuvwxyz"

Digits == "0123456789"

\* the position of character c in string s, 0 when it does not occur
IndexIn(s, c) ==
  LET hits == {i \in 1..Len(s) : CharAt(s, i) = c}
  IN  IF hits = {} THEN 0 ELSE CHOOSE i \in hits : \A j \in hits : i <= j

is_uppercase(c) == IndexIn(UpperAZ, c) > 0

is_lowercase(c) == IndexIn(LowerAZ, c) > 0

is_digit(c) == IndexIn(Digits, c) > 0

is_whitespace(c) == c = " "

char_to_ascii_lowercase(c) ==
  IF is_uppercase(c) THEN CharAt(LowerAZ, IndexIn(UpperAZ, c)) ELSE c

char_to_ascii_uppercase(c) ==
  IF is_lowercase(c) THEN CharAt(UpperAZ, IndexIn(LowerAZ, c)) ELSE c

RECURSIVE to_ascii_lowercase(_)
to_ascii_lowercase(s) ==
  IF s = "" THEN "" ELSE char_to_ascii_lowercase(Head(s)) \o to_ascii_lowercase(Tail(s))

RECURSIVE to_ascii_uppercase(_)
to_ascii_uppercase(s) ==
  IF s = "" THEN "" ELSE char_to_ascii_uppercase(Head(s)) \o to_ascii_uppercase(Tail(s))

starts_with(s, prefix) ==
  Len(prefix) <= Len(s) /\ SubSeq(s, 1, Len(prefix)) = prefix

RECURSIVE trim_start(_)
trim_start(s) ==
  IF s # "" /\ is_whitespace(Head(s)) THEN trim_start(Tail(s)) ELSE s

RECURSIVE trim_end(_)
trim_end(s) ==
  IF s # "" /\ is_whitespace(CharAt(s, Len(s)))
  THEN trim_end(SubSeq(s, 1, Len(s) - 1)) ELSE s

trim(s) == trim_end(trim_start(s))

\* a match on a string: the index of the first arm whose pattern is the
\* scrutinee, byte for byte; 0 when only the wildcard arm is left
MatchArm(patterns, value) ==
  LET hits == {i \in 1..Len(patterns) : patterns[i] = value}
  IN  IF hits = {} THEN 0 ELSE CHOOSE i \in hits : \A j \in hits : i <= j

----------------------------------------------------------------------------
(* controlled_vocabularies.rs: the measurement-unit authority table *)

\* enum MDRunit
MDRunit ==
  {
    "Decibel", "Manmonth", "Byte", "Ampere", "Bar", "Bit",
    "Becquerel", "Mole", "Nanometre", "Candela", "DegreeCelsius", "SquareCentimetre",
    "CubicCentimetre", "Centimetre", "TeraJoule", "GigaByte", "Gram", "GrossTonnage",
    "GigaWattHour", "Hectare", "HectoLitre", "Hertz", "Hour", "Joule",
    "Kelvin", "Kilogram", "KilometrePerHour", "SquareKilometre", "Kilometre", "KiloWattHour",
    "KiloWatt", "LabourHour", "Litre", "MegaWatt", "MilliGram", "Minute",
    "MilliLitre", "MilliMetre", "SquareMetre", "Metre", "MetrePerSecond", "Newton",
    "Pascal", "Second", "TonneKilometre", "Tonne", "TonneOfOilEquvalent", "Volt",
    "Watt"
  }

\* the arms of the match in MDRunit::try_from, in source order: pattern, variant
MDRunit_arms ==
  <<
    <<"2N", "Decibel">>, <<"3C", "Manmonth">>, <<"AD", "Byte">>, <<"AMP", "Ampere">>,
    <<"BAR", "Bar">>, <<"BIT", "Bit">>, <<"BQL", "Becquerel">>, <<"C34", "Mole">>,
    <<"C45", "Nanometre">>, <<"CDL", "Candela">>, <<"CEL", "DegreeCelsius">>, <<"CMK", "SquareCentimetre">>,
    <<"CMQ", "CubicCentimetre">>, <<"CMT", "Centimetre">>, <<"D30", "TeraJoule">>, <<"E34", "GigaByte">>,
    <<"GRM", "Gram">>, <<"GTE", "GrossTonnage">>, <<"GWH", "GigaWattHour">>, <<"HAR", "Hectare">>,
    <<"HLT", "HectoLitre">>, <<"HTZ", "Hertz">>, <<"HUR", "Hour">>, <<"JOU", "Joule">>,
    <<"KEL", "Kelvin">>, <<"KGM", "Kilogram">>, <<"KMH", "KilometrePerHour">>, <<"KMK", "SquareKilometre">>,
    <<"KTM", "Kilometre">>, <<"KWH", "KiloWattHour">>, <<"KWT", "KiloWatt">>, <<"LH", "LabourHour">>,
    <<"LTR", "Litre">>, <<"MAW", "MegaWatt">>, <<"MGM", "MilliGram">>, <<"MIN", "Minute">>,
    <<"MLT", "MilliLitre">>, <<"MMT", "MilliMetre">>, <<"MTK", "SquareMetre">>, <<"MTR", "Metre">>,
    <<"MTS", "MetrePerSecond">>, <<"NEW", "Newton">>, <<"PAL", "Pascal">>, <<"SEC", "Second">>,
    <<"TKM", "TonneKilometre">>, <<"TNE", "Tonne">>, <<"TOE", "TonneOfOilEquvalent">>, <<"VLT", "Volt">>,
    <<"WTT", "Watt">>
  >>

MDRunit_patterns == [i \in 1..Len(MDRunit_arms) |-> MDRunit_arms[i][1]]

\* a match that folds the letter case of the scrutinee before it compares
MDRunit_try_from_caseless(value) ==
  LET i == MatchArm(MDRunit_patterns, to_ascii_uppercase(value))
  IN  IF i > 0 THEN Ok(MDRunit_arms[i][2])
      ELSE Err("Could not form a Europass measure from a string")

\* a match in which the arms of "HUR" and "MIN" are exchanged
MDRunit_try_from_swapped(value) ==
  LET i == MatchArm(MDRunit_patterns, value)
  IN  IF i = 0 THEN Err("Could not form a Europass measure from a string")
      ELSE IF value = "HUR" THEN Ok("Minute")
      ELSE IF value = "MIN" THEN Ok("Hour")
      ELSE Ok(MDRunit_arms[i][2])

\* impl TryFrom<&str> for MDRunit.  The error is a fixed &'static str (the
\* source text ends in an ellipsis character, left out here).
MDRunit_try_from(value) ==
  LET i == MatchArm(MDRunit_patterns, value)
  IN  IF i > 0 THEN Ok(MDRunit_arms[i][2])
      ELSE Err("Could not form a Europass measure from a string")

----------------------------------------------------------------------------
(* controlled_vocabularies.rs: the currency authority table *)

\* the patterns of the match in MDRcurrency::try_from, in source order; every
\* arm is Ok(MDRcurrency {code: String::from(value)})
MDRcurrency_arms ==
  <<
    "ADP", "AED", "AFA", "AFN", "ALK", "ALL", "AMD", "ANG", "AOA", "AON", "AOR", "ARA",
    "ARM", "ARP", "ARS", "ATS", "AUD", "AWG", "AZM", "AZN", "BAM", "BBD", "BDT", "BEF",
    "BGJ", "BGK", "BGL", "BGN", "BHD", "BIF", "BMD", "BND", "BOB", "BOP", "BOV", "BRB",
    "BRC", "BRE", "BRL", "BRN", "BRR", "BRZ", "BSD", "BTN", "BWP", "BYN", "BYR", "BZD",
    "CAD", "CDF", "CHE", "CHF", "CHW", "CLE", "CLF", "CLP", "CNY", "COP", "COU", "CRC",
    "CSJ", "CSK", "CUC", "CUP", "CVE", "CYP", "CZK", "DDM", "DEM", "DJF", "DKK", "DOP",
    "DZD", "ECS", "EEK", "EGP", "ERN", "ESP", "ETB", "EUR", "FIM", "FJD", "FKP", "FRF",
    "GBP", "GEL", "GHC", "GHS", "GIP", "GMD", "GNE", "GNF", "GQE", "GRD", "GTQ", "GWP",
    "GYD", "HKD", "HNL", "HRK", "HTG", "HUF", "IDR", "IEP", "ILP", "ILR", "ILS", "INR",
    "IQD", "IRR", "ISJ", "ISK", "ITL", "JMD", "JOD", "JPY", "KES", "KGS", "KHR", "KMF",
    "KPW", "KRW", "KWD", "KYD", "KZT", "LAJ", "LAK", "LBP", "LKR", "LRD", "LSL", "LTL",
    "LUF", "LVL", "LYD", "MAD", "MDL", "MGA", "MGF", "MKD", "MLF", "MMK", "MNT", "MOP",
    "MRO", "MRU", "MTL", "MTP", "MUR", "MVQ", "MVR", "MWK", "MXN", "MXP", "MXV", "MYR",
    "MZM", "MZN", "NAD", "NFD", "NGN", "NIO", "NLG", "NOK", "NPR", "NZD", "OMR", "PAB",
    "PEH", "PEI", "PEN", "PGK", "PHP", "PKR", "PLN", "PLZ", "PTE", "PYG", "QAR", "ROL",
    "RON", "RSD", "RUB", "RUR", "RWF", "SAR", "SBD", "SCR", "SDD", "SDG", "SEK", "SGD",
    "SHP", "SIT", "SKK", "SLL", "SOS", "SRD", "SRG", "SSP", "STD", "STN", "SUR", "SVC",
    "SYP", "SZL", "THB", "TJR", "TJS", "TMM", "TMT", "TND", "TOP", "TPE", "TRL", "TRY",
    "TTD", "TWD", "TZS", "UAH", "UAK", "UGS", "UGX", "USD", "USN", "USS", "UYI", "UYN",
    "UYU", "UYW", "UZS", "VEB", "VEF", "VES", "VNC", "VND", "VUV", "WST", "XAF", "XAG",
    "XAU", "XBA", "XBB", "XBC", "XBD", "XCD", "XDR", "XEU", "XOF", "XPD", "XPF", "XPT",
    "XSU", "XTS", "XUA", "XXX", "YDD", "YER", "YUD", "YUF", "YUM", "YUN", "YUS", "ZAR",
    "ZMK", "ZMW", "ZRN", "ZRZ", "ZWC", "ZWD", "ZWL", "ZWN", "ZWR"
  >>

\* format!("Could not form an MDR standard currency code from string {}", value)
MDRcurrency_error(value) ==
  "Could not form an MDR standard currency code from string " \o value

\* a match that trims and folds the letter case of the scrutinee first
MDRcurrency_try_from_normalising(value) ==
  IF MatchArm(MDRcurrency_arms, to_ascii_uppercase(trim(value))) > 0
  THEN Ok([code |-> value])
  ELSE Err(MDRcurrency_error(value))

\* impl TryFrom<&str> for MDRcurrency
MDRcurrency_try_from(value) ==
  IF MatchArm(MDRcurrency_arms, value) > 0
  THEN Ok([code |-> value])
  ELSE Err(MDRcurrency_error(value))

----------------------------------------------------------------------------
(* serde: the errors of serde::de::Error that the deserializers build.     *)
(* kind is the constructor, what its subject (the unexpected value, the    *)
(* field or the message) and expected the text of the visitor's            *)
(* expectation.  serde_json adds the line and column of the input, which   *)
(* the model does not keep.                                                *)

DeError(kind, what, expected) == [kind |-> kind, what |-> what, expected |-> expected]

----------------------------------------------------------------------------
(* sisu_attainment.rs, lib.rs: the role of an attainment acceptor *)

\* the arms of the match in RoleURNVisitor::visit_str (sisu_attainment.rs;
\* the visitor of lib.rs has the same arms) and of RoleURN::from_str (lib.rs)
RoleURN_visit_str_arms ==
  <<
    <<"urn:code:attainment-acceptor-type:approved-by",
      "ApprovedBy">>,
    <<"urn:code:attainment-acceptor-type:coordinating-supervisor",
      "CoordinatingSupervisor">>,
    <<"urn:code:attainment-acceptor-type:coordinating-professor",
      "CoordinatingProfessor">>,
    <<"urn:code:attainment-acceptor-type:supervising-professor",
      "SupervisingProfessor">>,
    <<"urn:code:attainment-acceptor-type:more-supervising-professor",
      "MoreSupervisingProfessor">>,
    <<"urn:code:attainment-acceptor-type:examinator",
      "Examinator">>,
    <<"urn:code:attainment-acceptor-type:supervisor",
      "Supervisor">>,
    <<"urn:code:attainment-acceptor-type:thesis-advisor",
      "ThesisAdvisor">>,
    <<"urn:code:attainment-acceptor-type:examiner",
      "Examiner">>,
    <<"urn:code:attainment-acceptor-type:preliminary-examiner",
      "PreliminaryExaminer">>,
    <<"urn:code:attainment-acceptor-type:opponent",
      "Opponent">>,
    <<"urn:code:attainment-acceptor-type:custos",
      "Custos">>
  >>

RoleURN_from_str_arms ==
  <<
    <<"urn:code:attainment-acceptor-type:approved-by",
      "ApprovedBy">>,
    <<"urn:code:attainment-acceptor-type:coordinating-supervisor",
      "CoordinatingSupervisor">>,
    <<"urn:code:attainment-acceptor-type:coordinating-professor",
      "CoordinatingProfessor">>,
    <<"urn:code:attainment-acceptor-type:supervising-professor",
      "SupervisingProfessor">>,
    <<"urn:code:attainment-acceptor-type:more-supervising-professor",
      "MoreSupervisingProfessor">>,
    <<"urn:code:attainment-acceptor-type:examinator",
      "Examinator">>,
    <<"urn:code:attainment-acceptor-type:supervisor",
      "Supervisor">>,
    <<"urn:code:attainment-acceptor-type:thesis-advisor",
      "ThesisAdvisor">>,
    <<"urn:code:attainment-acceptor-type:examiner",
      "Examiner">>,
    <<"urn:code:attainment-acceptor-type:preliminary-examiner",
      "PreliminaryExaminer">>,
    <<"urn:code:attainment-acceptor-type:opponent",
      "Opponent">>,
    <<"urn:code:attainment-acceptor-type:custos",
      "Custos">>
  >>

RoleURN_visit_str_patterns ==
  [i \in 1..Len(RoleURN_visit_str_arms) |-> RoleURN_visit_str_arms[i][1]]

RoleURN_from_str_patterns ==
  [i \in 1..Len(RoleURN_from_str_arms) |-> RoleURN_from_str_arms[i][1]]

\* RoleURNVisitor::expecting
RoleURN_expecting == "an integer or string representing a Foo"

\* a visitor whose arm for the examiner also takes every other examiner URN
RoleURN_visit_str_prefix(s) ==
  LET i == MatchArm(RoleURN_visit_str_patterns, s)
  IN  IF i > 0 THEN Ok(RoleURN_visit_str_arms[i][2])
      ELSE IF starts_with(s, "urn:code:attainment-acceptor-type:exam") THEN Ok("Examiner")
      ELSE Err(DeError("invalid_value", s, RoleURN_expecting))

\* RoleURNVisitor::visit_str
RoleURN_visit_str(s) ==
  LET i == MatchArm(RoleURN_visit_str_patterns, s)
  IN  IF i > 0 THEN Ok(RoleURN_visit_str_arms[i][2])
      ELSE Err(DeError("invalid_value", s, RoleURN_expecting))

\* impl FromStr for RoleURN; its error is the unit value
RoleURN_from_str(string) ==
  LET i == MatchArm(RoleURN_from_str_patterns, string)
  IN  IF i > 0 THEN Ok(RoleURN_from_str_arms[i][2])
      ELSE Err("()")

----------------------------------------------------------------------------
(* serde_derive: the rename rules of #[serde(rename_all = "...")] *)

RECURSIVE snake_case_variant(_, _)
snake_case_variant(variant, i) ==
  IF i > Len(variant) THEN ""
  ELSE LET ch == CharAt(variant, i)
       IN  (IF i > 1 /\ is_uppercase(ch) THEN "_" ELSE "")
           \o char_to_ascii_lowercase(ch)
           \o snake_case_variant(variant, i + 1)

\* RenameRule::apply_to_variant
apply_to_variant(rule, variant) ==
  CASE rule = "PascalCase" -> variant
    [] rule = "lowercase" -> to_ascii_lowercase(variant)
    [] rule = "UPPERCASE" -> to_ascii_uppercase(variant)
    [] rule = "camelCase" ->
         char_to_ascii_lowercase(Head(variant)) \o Tail(variant)
    [] rule = "snake_case" -> snake_case_variant(variant, 1)
    [] rule = "SCREAMING_SNAKE_CASE" ->
         to_ascii_uppercase(snake_case_variant(variant, 1))

RECURSIVE pascal_case_field(_, _)
pascal_case_field(field, capitalize) ==
  IF field = "" THEN ""
  ELSE LET ch == Head(field)
       IN  IF ch = "_" THEN pascal_case_field(Tail(field), TRUE)
           ELSE IF capitalize
                THEN char_to_ascii_uppercase(ch) \o pascal_case_field(Tail(field), FALSE)
                ELSE ch \o pascal_case_field(Tail(field), FALSE)

\* RenameRule::apply_to_field
apply_to_field(rule, field) ==
  CASE rule = "none" -> field
    [] rule = "snake_case" -> field
    [] rule = "lowercase" -> field
    [] rule = "UPPERCASE" -> to_ascii_uppercase(field)
    [] rule = "SCREAMING_SNAKE_CASE" -> to_ascii_uppercase(field)
    [] rule = "PascalCase" -> pascal_case_field(field, TRUE)
    [] rule = "camelCase" ->
         LET pascal == pascal_case_field(field, TRUE)
         IN  char_to_ascii_lowercase(Head(pascal)) \o Tail(pascal)

----------------------------------------------------------------------------
(* sisu_attainment.rs: the enumerations of the source record *)

\* enum DocumentState
DocumentState ==
  [rename_all |-> "SCREAMING_SNAKE_CASE",
   variants |-> <<"Draft", "Active", "Deleted">>]

\* enum AverageCalculationMethod
AverageCalculationMethod ==
  [rename_all |-> "SCREAMING_SNAKE_CASE",
   variants |-> <<"CourseUnitArithmeticMeanWeightingByCredits",
                  "ArithmeticMeanWeightingByCredits">>]

\* enum AttainmentState
AttainmentState ==
  [rename_all |-> "SCREAMING_SNAKE_CASE",
   variants |-> <<"Attained", "Included", "Substituted", "Failed">>]

\* enum AttainmentType
AttainmentType ==
  [rename_all |-> "PascalCase",
   variants |-> <<"AssessmentItemAttainment", "CourseUnitAttainment", "ModuleAttainment">>]

EnumNames == {"DocumentState", "AverageCalculationMethod", "AttainmentState", "AttainmentType"}

EnumDef(ty) ==
  CASE ty = "DocumentState" -> DocumentState
    [] ty = "AverageCalculationMethod" -> AverageCalculationMethod
    [] ty = "AttainmentState" -> AttainmentState
    [] ty = "AttainmentType" -> AttainmentType

\* the name a derived enum gives its variant i
VariantName(def, i) == apply_to_variant(def.rename_all, def.variants[i])

\* the names each derived enum answers to, in declaration order (VARIANTS)
VARIANTS ==
  [ty \in EnumNames |->
     [i \in 1..Len(EnumDef(ty).variants) |-> VariantName(EnumDef(ty), i)]]

VariantNames(ty) == VARIANTS[ty]

RECURSIVE JoinNames(_, _)
JoinNames(names, i) ==
  IF i > Len(names) THEN ""
  ELSE (IF i > 1 THEN ", " ELSE "") \o names[i] \o JoinNames(names, i + 1)

\* a derived field visitor that folds the letter case of the name it is given
visit_variant_caseless(ty, value) ==
  LET names == VariantNames(ty)
      i == MatchArm([k \in 1..Len(names) |-> to_ascii_lowercase(names[k])],
                    to_ascii_lowercase(value))
  IN  IF i > 0 THEN Ok(EnumDef(ty).variants[i])
      ELSE Err(DeError("unknown_variant", value, "one of " \o JoinNames(names, 1)))

\* a derived field visitor that falls back to the first variant
visit_variant_defaulting(ty, value) ==
  LET names == VariantNames(ty)
      i == MatchArm(names, value)
  IN  IF i > 0 THEN Ok(EnumDef(ty).variants[i])
      ELSE Ok(EnumDef(ty).variants[1])

\* #[derive(Deserialize)] on an enum of unit variants: the variant named by a
\* string
visit_variant(ty, value) ==
  LET names == VariantNames(ty)
      i == MatchArm(names, value)
  IN  IF i > 0 THEN Ok(EnumDef(ty).variants[i])
      ELSE Err(DeError("unknown_variant", value, "one of " \o JoinNames(names, 1)))

----------------------------------------------------------------------------
(* chrono: NaiveDate, the type of the date fields of sisu_attainment.rs.   *)
(* Its Deserialize hands the JSON string to NaiveDate::from_str, which     *)
(* parses the items year, "-", month, "-", day (chrono 0.4).               *)

MIN_YEAR == -262144

MAX_YEAR == 262143

is_leap_year(year) ==
  year % 4 = 0 /\ (year % 100 # 0 \/ year % 400 = 0)

days_in_month(year, month) ==
  CASE month \in {1, 3, 5, 7, 8, 10, 12} -> 31
    [] month \in {4, 6, 9, 11} -> 30
    [] month = 2 -> IF is_leap_year(year) THEN 29 ELSE 28

\* NaiveDate::from_ymd_opt
from_ymd_opt(year, month, day) ==
  IF /\ year >= MIN_YEAR /\ year <= MAX_YEAR
     /\ month >= 1 /\ month <= 12
     /\ day >= 1 /\ day <= days_in_month(year, month)
  THEN Ok([year |-> year, month |-> month, day |-> day])
  ELSE Err("input is out of range")

\* the number of leading ASCII digits of s, at most max
RECURSIVE digit_run(_, _)
digit_run(s, max) ==
  IF max = 0 \/ s = "" \/ ~is_digit(Head(s)) THEN 0
  ELSE 1 + digit_run(Tail(s), max - 1)

RECURSIVE digits_value(_)
digits_value(s) ==
  IF s = "" THEN 0
  ELSE 10 * digits_value(SubSeq(s, 1, Len(s) - 1)) + (IndexIn(Digits, CharAt(s, Len(s))) - 1)

\* format::scan::number: between min and max digits from the front of s;
\* Ok carries the number and the rest of the input
scan_number(s, min, max) ==
  LET k == digit_run(s, max)
  IN  IF Len(s) < min THEN Err("premature end of input")
      ELSE IF k < min THEN Err("input contains invalid characters")
      ELSE Ok([n |-> digits_value(SubSeq(s, 1, k)), rest |-> SubSeq(s, k + 1, Len(s))])

\* the items of the format of NaiveDate's FromStr: year, "-", month, "-",
\* day, with optional white space after each number
ITEMS == <<"Year", "Space", "Literal", "Month", "Space", "Literal", "Day", "Space">>

\* Item::Numeric: leading white space is skipped; the year takes up to four
\* digits, or any number of digits after a sign; month and day take up to
\* two digits
parse_numeric(item, s0) ==
  LET s == trim_start(s0)
  IN  IF item # "Year" THEN scan_number(s, 1, 2)
      ELSE IF starts_with(s, "-")
           THEN LET r == scan_number(Tail(s), 1, Len(s))
                IN  IF r.ok THEN Ok([n |-> 0 - r.val.n, rest |-> r.val.rest]) ELSE r
           ELSE IF starts_with(s, "+") THEN scan_number(Tail(s), 1, Len(s))
           ELSE scan_number(s, 1, 4)

\* one item of the format on the input s: Ok carries the fields parsed so
\* far and the rest of the input
parse_item(item, parsed, s) ==
  IF item = "Space" THEN Ok([parsed |-> parsed, rest |-> trim_start(s)])
  ELSE IF item = "Literal"
       THEN IF Len(s) < 1 THEN Err("premature end of input")
            ELSE IF ~starts_with(s, "-") THEN Err("input contains invalid characters")
            ELSE Ok([parsed |-> parsed, rest |-> Tail(s)])
       ELSE LET r == parse_numeric(item, s)
            IN  IF r.ok
                THEN Ok([parsed |-> [parsed EXCEPT ![item] = r.val.n], rest |-> r.val.rest])
                ELSE r

RECURSIVE parse(_, _, _)
\* format::parse: the items in order on the input, up to the first error;
\* input left over after the last item is an error
parse(parsed, s, i) ==
  IF i > Len(ITEMS)
  THEN IF s # "" THEN Err("trailing input") ELSE Ok(parsed)
  ELSE LET r == parse_item(ITEMS[i], parsed, s)
       IN  IF r.ok THEN parse(r.val.parsed, r.val.rest, i + 1) ELSE r

\* Parsed::new: no field is set (each field is set before it is read)
Parsed_new == [Year |-> 0, Month |-> 0, Day |-> 0]

\* a parser that answers the Unix epoch where chrono reports an error
NaiveDate_from_str_defaulting(s) ==
  LET parsed == parse(Parsed_new, s, 1)
      date == IF parsed.ok
              THEN from_ymd_opt(parsed.val.Year, parsed.val.Month, parsed.val.Day)
              ELSE parsed
  IN  IF date.ok THEN date ELSE Ok([year |-> 1970, month |-> 1, day |-> 1])

\* a parser that reads the groups as year, day, month
NaiveDate_from_str_swapped(s) ==
  LET parsed == parse(Parsed_new, s, 1)
  IN  IF parsed.ok
      THEN from_ymd_opt(parsed.val.Year, parsed.val.Day, parsed.val.Month)
      ELSE parsed

\* impl FromStr for NaiveDate: parse the items, then Parsed::to_naive_date
NaiveDate_from_str(s) ==
  LET parsed == parse(Parsed_new, s, 1)
  IN  IF parsed.ok
      THEN from_ymd_opt(parsed.val.Year, parsed.val.Month, parsed.val.Day)
      ELSE parsed

----------------------------------------------------------------------------
(* serde_json: the JSON values of a source record.  The members of an      *)
(* object keep the order of the text; a number keeps its literal.          *)

JString(s) == [t |-> "string", s |-> s]

JNumber(n) == [t |-> "number", n |-> n]

JBool(b) == [t |-> "bool", b |-> b]

JNull == [t |-> "null"]

JArray(items) == [t |-> "array", items |-> items]

JObject(members) == [t |-> "object", members |-> members]

----------------------------------------------------------------------------
(* sisu_attainment.rs: the structs of the source record, as the derive     *)
(* macro sees them: the rename rule of the struct and, per field in        *)
(* declaration order, its name, its #[serde(rename)] and its type.         *)

\* struct SISUAttainment
SISUAttainment ==
  [rename_all |-> "camelCase",
   fields |-> <<
     [name |-> "acceptor_persons", rename |-> "", ty |-> "Vec<PersonWithAttainmentAcceptorType>"],
     [name |-> "additional_info", rename |-> "", ty |-> "LocalizedString"],
     [name |-> "attainment_date", rename |-> "", ty |-> "NaiveDate"],
     [name |-> "attainment_language_urn", rename |-> "", ty |-> "String"],
     [name |-> "credit_transfer_info", rename |-> "", ty |-> "CreditTransferInfo"],
     [name |-> "credits", rename |-> "", ty |-> "Number"],
     [name |-> "document_state", rename |-> "", ty |-> "DocumentState"],
     [name |-> "expiry_date", rename |-> "", ty |-> "NaiveDate"],
     [name |-> "grade_average", rename |-> "", ty |-> "GradeAverage"],
     [name |-> "grade_id", rename |-> "", ty |-> "Number"],
     [name |-> "grade_scale_id", rename |-> "", ty |-> "String"],
     [name |-> "id", rename |-> "", ty |-> "String"],
     [name |-> "misregistration", rename |-> "", ty |-> "bool"],
     [name |-> "misregistration_rationale", rename |-> "", ty |-> "String"],
     [name |-> "module_content_application_id", rename |-> "", ty |-> "String"],
     [name |-> "organisations", rename |-> "", ty |-> "Vec<OrganisationRoleShareBase>"],
     [name |-> "person_first_names", rename |-> "", ty |-> "String"],
     [name |-> "person_id", rename |-> "", ty |-> "String"],
     [name |-> "person_last_name", rename |-> "", ty |-> "String"],
     [name |-> "person_student_number", rename |-> "", ty |-> "String"],
     [name |-> "primary", rename |-> "", ty |-> "bool"],
     [name |-> "registration_date", rename |-> "", ty |-> "NaiveDate"],
     [name |-> "state", rename |-> "", ty |-> "AttainmentState"],
     [name |-> "student_application_id", rename |-> "", ty |-> "String"],
     [name |-> "study_field_urn", rename |-> "", ty |-> "String"],
     [name |-> "study_right_id", rename |-> "", ty |-> "String"],
     [name |-> "study_weeks", rename |-> "", ty |-> "Number"],
     [name |-> "attainment_type", rename |-> "type", ty |-> "AttainmentType"],
     [name |-> "verifier_person_id", rename |-> "", ty |-> "String"]
   >>]

\* struct PersonWithAttainmentAcceptorType
PersonWithAttainmentAcceptorType ==
  [rename_all |-> "camelCase",
   fields |-> <<
     [name |-> "person_id", rename |-> "", ty |-> "String"],
     [name |-> "role_urn", rename |-> "", ty |-> "RoleURN"],
     [name |-> "text", rename |-> "", ty |-> "LocalizedString"],
     [name |-> "title", rename |-> "", ty |-> "LocalizedString"]
   >>]

\* struct LocalizedString
LocalizedString ==
  [rename_all |-> "none",
   fields |-> <<
     [name |-> "en", rename |-> "", ty |-> "String"],
     [name |-> "fi", rename |-> "", ty |-> "String"],
     [name |-> "sv", rename |-> "", ty |-> "String"]
   >>]

\* struct CreditTransferInfo
CreditTransferInfo ==
  [rename_all |-> "camelCase",
   fields |-> <<
     [name |-> "credit_transfer_date", rename |-> "", ty |-> "NaiveDate"],
     [name |-> "educational_institution_urn", rename |-> "", ty |-> "String"],
     [name |-> "international_institution_urn", rename |-> "", ty |-> "String"],
     [name |-> "organisation", rename |-> "", ty |-> "String"]
   >>]

\* struct GradeAverage
GradeAverage ==
  [rename_all |-> "camelCase",
   fields |-> <<
     [name |-> "grade_scale_id", rename |-> "", ty |-> "String"],
     [name |-> "method", rename |-> "", ty |-> "AverageCalculationMethod"],
     [name |-> "total_included_credits", rename |-> "", ty |-> "Number"],
     [name |-> "value", rename |-> "", ty |-> "Number"]
   >>]

\* struct OrganisationRoleShareBase
OrganisationRoleShareBase ==
  [rename_all |-> "camelCase",
   fields |-> <<
     [name |-> "educational_institution_urn", rename |-> "", ty |-> "String"],
     [name |-> "organisation_id", rename |-> "", ty |-> "String"],
     [name |-> "role_urn", rename |-> "", ty |-> "String"],
     [name |-> "share", rename |-> "", ty |-> "Number"]
   >>]

StructNames ==
  {"SISUAttainment", "PersonWithAttainmentAcceptorType", "LocalizedString",
   "CreditTransferInfo", "GradeAverage", "OrganisationRoleShareBase"}

StructDef(ty) ==
  CASE ty = "SISUAttainment" -> SISUAttainment
    [] ty = "PersonWithAttainmentAcceptorType" -> PersonWithAttainmentAcceptorType
    [] ty = "LocalizedString" -> LocalizedString
    [] ty = "CreditTransferInfo" -> CreditTransferInfo
    [] ty = "GradeAverage" -> GradeAverage
    [] ty = "OrganisationRoleShareBase" -> OrganisationRoleShareBase

\* the element type of Vec<T>, "" for any other type
VecElem(ty) ==
  IF starts_with(ty, "Vec<") THEN SubSeq(ty, 5, Len(ty) - 1) ELSE ""

\* a derive that takes the field names as they are written in Rust
FieldKey_unrenamed(def, k) == def.fields[k].name

\* the JSON key the derived Deserialize reads field k of a struct from
FieldKey(def, k) ==
  IF def.fields[k].rename # "" THEN def.fields[k].rename
  ELSE apply_to_field(def.rename_all, def.fields[k].name)

\* the JSON keys of each struct, in declaration order (its FIELDS)
FIELDS ==
  [ty \in StructNames |->
     [k \in 1..Len(StructDef(ty).fields) |-> FieldKey(StructDef(ty), k)]]

\* the derived field visitor: the index of the field a key names, 0 for a
\* key the struct does not know (its value is skipped)
FieldIndex(ty, key) == MatchArm(FIELDS[ty], key)

RECURSIVE strip_zeros(_)
\* the digits of a fraction without the zeros at its end
strip_zeros(s) ==
  IF s # "" /\ CharAt(s, Len(s)) = "0" THEN strip_zeros(SubSeq(s, 1, Len(s) - 1)) ELSE s

\* a Number that keeps the literal of the JSON text as it is written
Number_from_literal_verbatim(n) == [N |-> "Literal", m |-> n, e |-> 0]

\* serde_json::value::Number of a JSON number literal (sign, digits, an
\* optional fraction): a literal without a fraction is the integer PosInt
\* or NegInt, one with a fraction is the Float m / 10^e
Number_from_literal(n) ==
  LET neg == starts_with(n, "-")
      body == IF neg THEN Tail(n) ELSE n
      dot == IndexIn(body, ".")
      frac == IF dot = 0 THEN "" ELSE strip_zeros(SubSeq(body, dot + 1, Len(body)))
      whole == IF dot = 0 THEN body ELSE SubSeq(body, 1, dot - 1)
      m == digits_value(whole \o frac)
  IN  IF dot # 0 \/ (neg /\ m = 0)
      THEN [N |-> "Float", m |-> IF neg THEN 0 - m ELSE m, e |-> Len(frac)]
      ELSE IF neg THEN [N |-> "NegInt", m |-> 0 - m, e |-> 0]
      ELSE [N |-> "PosInt", m |-> m, e |-> 0]

\* Number::as_f64, in thousandths (the numbers of the records have at most
\* three decimals, so the f64 is the decimal the literal writes)
as_f64(number) ==
  number.m * (CASE number.e = 0 -> 1000 [] number.e = 1 -> 100
                [] number.e = 2 -> 10 [] number.e = 3 -> 1)

\* Error::invalid_type for a JSON value of the wrong kind
invalid_type(v, expected) == Err(DeError("invalid_type", v.t, expected))

\* a deserializer that leaves a field that is absent at its default
missing_field_defaulting(key) == Ok("")

\* serde::private::de::missing_field for a field that is no Option
missing_field(key) == Err(DeError("missing_field", key, ""))

\* a RoleURN deserializer that keeps a role it does not know as "other"
RoleURN_deserialize_placeholder(v) ==
  IF v.t = "string"
  THEN IF RoleURN_visit_str(v.s).ok THEN RoleURN_visit_str(v.s) ELSE Ok("Other")
  ELSE invalid_type(v, RoleURN_expecting)

\* impl Deserialize for RoleURN: deserialize_any with a visitor that has
\* visit_str only
RoleURN_deserialize(v) ==
  IF v.t = "string" THEN RoleURN_visit_str(v.s)
  ELSE invalid_type(v, RoleURN_expecting)

\* a date deserializer that keeps the string it is given
NaiveDate_deserialize_unparsed(v) ==
  IF v.t = "string" THEN Ok(v.s)
  ELSE invalid_type(v, "a formatted date string")

\* impl Deserialize for NaiveDate (chrono): visit_str parses the string and
\* turns the ParseError into Error::custom
NaiveDate_deserialize(v) ==
  IF v.t = "string"
  THEN LET r == NaiveDate_from_str(v.s)
       IN  IF r.ok THEN r ELSE Err(DeError("custom", r.err, ""))
  ELSE invalid_type(v, "a formatted date string")

\* the derived Deserialize of an enum of unit variants, from JSON: a string
\* names the variant; so does an object of one member whose value is null
Enum_deserialize(ty, v) ==
  IF v.t = "string" THEN visit_variant(ty, v.s)
  ELSE IF v.t = "object"
       THEN IF Len(v.members) = 1 /\ v.members[1][2].t = "null"
            THEN visit_variant(ty, v.members[1][1])
            ELSE Err(DeError("syntax", "expected value", ""))
       ELSE Err(DeError("syntax", "expected value", ""))

RECURSIVE Deserialize(_, _), visit_map(_, _), visit_seq(_, _), Vec_visit_seq(_, _)

\* the first result of a sequence of results that is an error: where a loop
\* with the ? operator stops; 0 when every result is Ok
FirstErr(rs) ==
  LET bad == {i \in DOMAIN rs : ~rs[i].ok}
  IN  IF bad = {} THEN 0 ELSE CHOOSE i \in bad : \A j \in bad : i <= j

\* the value of a struct whose fields have all been read
StructValue(def, acc) ==
  [name \in {def.fields[k].name : k \in 1..Len(def.fields)} |->
     acc[CHOOSE k \in 1..Len(def.fields) : def.fields[k].name = name].val]

\* the derived Visitor::visit_map of a struct.  The loop takes the members
\* in the order of the text: the value of a key the struct does not know is
\* skipped, a key met before is duplicate_field, any other value is
\* deserialized as the type of its field, and the first error ends the
\* loop.  After the loop the first field, in declaration order, that no
\* member set is reported by missing_field.
visit_map(ty, members) ==
  LET def == StructDef(ty)
      field == [i \in 1..Len(members) |-> FieldIndex(ty, members[i][1])]
      step == [i \in 1..Len(members) |->
                 IF field[i] = 0 THEN Ok(JNull)
                 ELSE IF \E j \in 1..(i - 1) : field[j] = field[i]
                      THEN Err(DeError("duplicate_field", members[i][1], ""))
                      ELSE Deserialize(def.fields[field[i]].ty, members[i][2])]
      stop == FirstErr(step)
      rest == [k \in 1..Len(def.fields) |->
                 IF \E i \in 1..Len(members) : field[i] = k
                 THEN step[CHOOSE i \in 1..Len(members) :
                             field[i] = k /\ \A j \in 1..(i - 1) : field[j] # k]
                 ELSE missing_field(FIELDS[ty][k])]
      lack == FirstErr(rest)
  IN  IF stop > 0 THEN step[stop]
      ELSE IF lack > 0 THEN rest[lack]
      ELSE Ok(StructValue(def, rest))

\* the derived Visitor::visit_seq of a struct: the fields by position, up to
\* the first error
visit_seq(ty, items) ==
  LET def == StructDef(ty)
      n == Len(def.fields)
      m == IF Len(items) < n THEN Len(items) ELSE n
      step == [k \in 1..m |-> Deserialize(def.fields[k].ty, items[k])]
      stop == FirstErr(step)
  IN  IF stop > 0 THEN step[stop]
      ELSE IF Len(items) < n THEN Err(DeError("invalid_length", "struct " \o ty, ""))
      ELSE IF Len(items) > n THEN Err(DeError("syntax", "trailing characters", ""))
      ELSE Ok(StructValue(def, step))

\* a visitor that puts each element before the ones read so far
Vec_visit_seq_reversed(elem, items) ==
  LET step == [i \in 1..Len(items) |-> Deserialize(elem, items[i])]
      stop == FirstErr(step)
  IN  IF stop > 0 THEN step[stop]
      ELSE Ok([i \in 1..Len(items) |-> step[Len(items) + 1 - i].val])

\* VecVisitor::visit_seq: the elements in order, up to the first error
Vec_visit_seq(elem, items) ==
  LET step == [i \in 1..Len(items) |-> Deserialize(elem, items[i])]
      stop == FirstErr(step)
  IN  IF stop > 0 THEN step[stop]
      ELSE Ok([i \in 1..Len(items) |-> step[i].val])

\* T::deserialize on a JSON value, for every type of the source record
Deserialize(ty, v) ==
  CASE ty = "String" -> IF v.t = "string" THEN Ok(v.s) ELSE invalid_type(v, "a string")
    [] ty = "bool" -> IF v.t = "bool" THEN Ok(v.b) ELSE invalid_type(v, "a boolean")
    [] ty = "Number" ->
         IF v.t = "number" THEN Ok(Number_from_literal(v.n))
         ELSE invalid_type(v, "a JSON number")
    [] ty = "NaiveDate" -> NaiveDate_deserialize(v)
    [] ty = "RoleURN" -> RoleURN_deserialize(v)
    [] ty \in EnumNames -> Enum_deserialize(ty, v)
    [] VecElem(ty) # "" ->
         IF v.t = "array" THEN Vec_visit_seq(VecElem(ty), v.items)
         ELSE invalid_type(v, "a sequence")
    [] ty \in StructNames ->
         IF v.t = "object" THEN visit_map(ty, v.members)
         ELSE IF v.t = "array" THEN visit_seq(ty, v.items)
         ELSE invalid_type(v, "struct " \o ty)

\* serde_json::from_str::<SISUAttainment>, on the record the text holds
from_str(record) == Deserialize("SISUAttainment", record)

\* <SISUAttainment as ToEuropassCredential>::to_europass_credential: the
\* body is todo!(), which panics
to_europass_credential(attainment) == Panic("not yet implemented")

----------------------------------------------------------------------------
(* The source records and the strings the operations are run on *)

\* the longest string of the exhaustive part of the validators' inputs
MaxLen == 3

\* the largest number of defects put into one source record
MaxDefects == 2

\* the record of the example response of the SISU Swagger UI (tests)
SISU_SWAGGER_UI_EXAMPLE_RESPONSE ==
  JObject(<<
    <<"acceptorPersons", JArray(<<
        JObject(<<
          <<"personId", JString("string")>>,
          <<"roleUrn", JString("urn:code:attainment-acceptor-type:approved-by")>>,
          <<"text", JObject(<<
              <<"en", JString("English version")>>,
              <<"fi", JString("Finnish version")>>,
              <<"sv", JString("Swedish version")>>
            >>)>>,
          <<"title", JObject(<<
              <<"en", JString("English version")>>,
              <<"fi", JString("Finnish version")>>,
              <<"sv", JString("Swedish version")>>
            >>)>>
        >>)
      >>)>>,
    <<"additionalInfo", JObject(<<
        <<"en", JString("English version")>>,
        <<"fi", JString("Finnish version")>>,
        <<"sv", JString("Swedish version")>>
      >>)>>,
    <<"attainmentDate", JString("2019-01-01")>>,
    <<"attainmentLanguageUrn", JString("string")>>,
    <<"creditTransferInfo", JObject(<<
        <<"creditTransferDate", JString("2019-01-01")>>,
        <<"educationalInstitutionUrn", JString("string")>>,
        <<"internationalInstitutionUrn", JString("string")>>,
        <<"organisation", JString("string")>>
      >>)>>,
    <<"credits", JNumber("0")>>,
    <<"documentState", JString("DRAFT")>>,
    <<"expiryDate", JString("2019-01-01")>>,
    <<"gradeAverage", JObject(<<
        <<"gradeScaleId", JString("string")>>,
        <<"method", JString("COURSE_UNIT_ARITHMETIC_MEAN_WEIGHTING_BY_CREDITS")>>,
        <<"totalIncludedCredits", JNumber("0")>>,
        <<"value", JNumber("0")>>
      >>)>>,
    <<"gradeId", JNumber("0")>>,
    <<"gradeScaleId", JString("string")>>,
    <<"id", JString("string")>>,
    <<"misregistration", JBool(TRUE)>>,
    <<"misregistrationRationale", JString("string")>>,
    <<"moduleContentApplicationId", JString("string")>>,
    <<"organisations", JArray(<<
        JObject(<<
          <<"educationalInstitutionUrn", JString("string")>>,
          <<"organisationId", JString("string")>>,
          <<"roleUrn", JString("string")>>,
          <<"share", JNumber("0")>>
        >>)
      >>)>>,
    <<"personFirstNames", JString("string")>>,
    <<"personId", JString("string")>>,
    <<"personLastName", JString("string")>>,
    <<"personStudentNumber", JString("string")>>,
    <<"primary", JBool(TRUE)>>,
    <<"registrationDate", JString("2019-01-01")>>,
    <<"state", JString("ATTAINED")>>,
    <<"studentApplicationId", JString("string")>>,
    <<"studyFieldUrn", JString("string")>>,
    <<"studyRightId", JString("string")>>,
    <<"studyWeeks", JNumber("0")>>,
    <<"type", JString("AssessmentItemAttainment")>>,
    <<"verifierPersonId", JString("string")>>
  >>)

RECURSIVE SetAt(_, _, _)
\* the JSON value v with the value at path replaced; a step into an array
\* is the decimal index of the element, counted from "0"
SetAt(v, path, new) ==
  IF path = <<>> THEN new
  ELSE IF v.t = "object"
       THEN JObject([i \in 1..Len(v.members) |->
              IF v.members[i][1] = Head(path)
              THEN <<v.members[i][1], SetAt(v.members[i][2], Tail(path), new)>>
              ELSE v.members[i]])
       ELSE IF v.t = "array"
            THEN JArray([i \in 1..Len(v.items) |->
                   IF i = IndexIn(Digits, Head(path))
                   THEN SetAt(v.items[i], Tail(path), new)
                   ELSE v.items[i]])
            ELSE v

RECURSIVE RemoveAt(_, _)
\* the JSON value v without the member at path
RemoveAt(v, path) ==
  IF v.t = "object"
  THEN IF Len(path) = 1
       THEN JObject(SelectSeq(v.members, LAMBDA m : m[1] # Head(path)))
       ELSE JObject([i \in 1..Len(v.members) |->
              IF v.members[i][1] = Head(path)
              THEN <<v.members[i][1], RemoveAt(v.members[i][2], Tail(path))>>
              ELSE v.members[i]])
  ELSE IF v.t = "array" /\ Len(path) > 1
       THEN JArray([i \in 1..Len(v.items) |->
              IF i = IndexIn(Digits, Head(path))
              THEN RemoveAt(v.items[i], Tail(path))
              ELSE v.items[i]])
       ELSE v

RECURSIVE GetAt(_, _)
\* the value at path, JNull when there is none
GetAt(v, path) ==
  IF path = <<>> THEN v
  ELSE IF v.t = "object"
       THEN IF \E i \in 1..Len(v.members) : v.members[i][1] = Head(path)
            THEN GetAt(v.members[CHOOSE i \in 1..Len(v.members) :
                                   v.members[i][1] = Head(path)][2], Tail(path))
            ELSE JNull
       ELSE IF v.t = "array" /\ IndexIn(Digits, Head(path)) \in 1..Len(v.items)
            THEN GetAt(v.items[IndexIn(Digits, Head(path))], Tail(path))
            ELSE JNull

RECURSIVE HasAt(_, _)
\* whether the record has a value at path
HasAt(v, path) ==
  IF path = <<>> THEN TRUE
  ELSE IF v.t = "object"
       THEN /\ \E i \in 1..Len(v.members) : v.members[i][1] = Head(path)
            /\ HasAt(v.members[CHOOSE i \in 1..Len(v.members) :
                                 v.members[i][1] = Head(path)][2], Tail(path))
       ELSE IF v.t = "array" /\ IndexIn(Digits, Head(path)) \in 1..Len(v.items)
            THEN HasAt(v.items[IndexIn(Digits, Head(path))], Tail(path))
            ELSE FALSE

\* where the structs of the record sit in the JSON text
StructPaths ==
  { [at |-> <<>>, ty |-> "SISUAttainment"],
    [at |-> <<"acceptorPersons", "0">>, ty |-> "PersonWithAttainmentAcceptorType"],
    [at |-> <<"acceptorPersons", "0", "text">>, ty |-> "LocalizedString"],
    [at |-> <<"acceptorPersons", "0", "title">>, ty |-> "LocalizedString"],
    [at |-> <<"additionalInfo">>, ty |-> "LocalizedString"],
    [at |-> <<"creditTransferInfo">>, ty |-> "CreditTransferInfo"],
    [at |-> <<"gradeAverage">>, ty |-> "GradeAverage"],
    [at |-> <<"organisations", "0">>, ty |-> "OrganisationRoleShareBase"] }

\* the path of every field of every struct of the record, with its type
FieldPaths ==
  UNION { { [path |-> Append(sp.at, FIELDS[sp.ty][k]),
             ty |-> StructDef(sp.ty).fields[k].ty] :
            k \in 1..Len(StructDef(sp.ty).fields) } : sp \in StructPaths }

PathsOfType(ty) == { fp.path : fp \in { f \in FieldPaths : f.ty = ty } }

DatePaths == PathsOfType("NaiveDate")

\* the URN fields of the record: the names that end in _urn
UrnPaths ==
  UNION { { Append(sp.at, FIELDS[sp.ty][k]) :
            k \in { j \in 1..Len(StructDef(sp.ty).fields) :
                    LET n == StructDef(sp.ty).fields[j].name
                    IN  Len(n) > 4 /\ SubSeq(n, Len(n) - 3, Len(n)) = "_urn" } }
          : sp \in StructPaths }

\* the defects a record is given: a field taken out, or a value that the
\* field's type does not take
Defects ==
  { [op |-> "remove", path |-> fp.path, v |-> JNull] : fp \in FieldPaths }
  \cup
  { [op |-> "set", path |-> <<"acceptorPersons", "0", "roleUrn">>, v |-> JString("urn:code:unknown-role")],
    [op |-> "set", path |-> <<"organisations", "0", "roleUrn">>, v |-> JString("urn:code:unknown-role")],
    [op |-> "set", path |-> <<"documentState">>, v |-> JString("draft")],
    [op |-> "set", path |-> <<"attainmentDate">>, v |-> JString("2019-13-01")],
    [op |-> "set", path |-> <<"credits">>, v |-> JString("0")],
    [op |-> "set", path |-> <<"primary">>, v |-> JNull] }

Apply(record, e) ==
  IF e.op = "remove" THEN RemoveAt(record, e.path) ELSE SetAt(record, e.path, e.v)

\* the defects that are put into a record that has a defect already
FurtherDefects ==
  { e \in Defects :
      \/ e.op = "set"
      \/ e.path \in { <<"acceptorPersons">>, <<"acceptorPersons", "0", "roleUrn">>,
                      <<"attainmentDate">>, <<"creditTransferInfo">>,
                      <<"gradeAverage", "method">>, <<"type">>, <<"verifierPersonId">> } }

RECURSIVE Damaged(_)
\* the example record with at most n defects
Damaged(n) ==
  IF n = 0 THEN {SISU_SWAGGER_UI_EXAMPLE_RESPONSE}
  ELSE LET less == Damaged(n - 1)
       IN  less \cup { Apply(r, e) : r \in less,
                                     e \in IF n = 1 THEN Defects ELSE FurtherDefects }

capitalise(s) ==
  IF s = "" THEN "" ELSE char_to_ascii_uppercase(Head(s)) \o to_ascii_lowercase(Tail(s))

\* a code and the strings near it: another letter case, white space
\* around it, one character more, every proper prefix
Variants(c) ==
  {c, to_ascii_lowercase(c), to_ascii_uppercase(c), capitalise(c),
   " " \o c, c \o " ", c \o "X", c \o "s"}
  \cup { SubSeq(c, 1, k) : k \in 0..(Len(c) - 1) }

ProbeChars == "EURHeur "

RECURSIVE Words(_)
\* every string of at most n characters of ProbeChars
Words(n) ==
  IF n = 0 THEN {""}
  ELSE LET shorter == Words(n - 1)
       IN  shorter \cup { w \o CharAt(ProbeChars, i) : w \in shorter, i \in 1..Len(ProbeChars) }

Range(seq) == { seq[i] : i \in 1..Len(seq) }

UnknownURNs == {"urn:code:unknown-role", "urn:code:organisation-role:custom", "string"}

VocabInputs ==
  UNION { Variants(c) : c \in Range(MDRcurrency_arms) \cup Range(MDRunit_patterns)
                               \cup Range(RoleURN_visit_str_patterns) }
  \cup Words(MaxLen) \cup UnknownURNs \cup {"XYZ"}

DateStrings ==
  { y \o sep \o m \o sep \o d :
      y \in {"2019", "2020", "1900", "19", "+12345"},
      sep \in {"-", "/"},
      m \in {"01", "1", "02", "12", "13", "00"},
      d \in {"01", "1", "29", "30", "31", "32", "00"} }
  \cup {"", "string", "2019-01-01 ", " 2019-01-01", "2019 - 01 - 01", "2019-01-01T00:00:00",
        "2019-01", "2019-01-", "01-01-2019", "2019-01-01x", "2019-1", "20190101",
        "1970-01-01", "-0001-01-01", "2019-001-01", "2019-01-001", "02019-01-01",
        "2019--01-01", "yyyy-mm-dd", "2O19-01-01", "+999999-01-01"}

EnumStrings ==
  UNION { UNION { Variants(VariantNames(ty)[i]) \cup {EnumDef(ty).variants[i]} :
                  i \in 1..Len(VariantNames(ty)) } : ty \in EnumNames }

RoleStrings ==
  UNION { {c, to_ascii_uppercase(c), c \o " ", c \o "s", SubSeq(c, 1, Len(c) - 1)} :
          c \in Range(RoleURN_visit_str_patterns) }
  \cup UnknownURNs \cup {""}

\* the example record with one string field set to a string
FieldRecords ==
  { SetAt(SISU_SWAGGER_UI_EXAMPLE_RESPONSE, p, JString(s)) : p \in DatePaths, s \in DateStrings }
  \cup
  UNION { { SetAt(SISU_SWAGGER_UI_EXAMPLE_RESPONSE, p, JString(s)) :
            p \in PathsOfType(ty), s \in EnumStrings } : ty \in EnumNames }
  \cup
  { SetAt(SISU_SWAGGER_UI_EXAMPLE_RESPONSE, p, JString(s)) : p \in UrnPaths, s \in RoleStrings }

\* the longest organisation and acceptor lists of the source records
MaxList == 2

ShareLiterals == {"0", "-1", "-0.5", "0.001", "0.25", "0.5", "1", "1.0", "1.5", "2"}

OrganisationRoles ==
  {"urn:code:organisation-role:responsible-organisation",
   "urn:code:organisation-role:coordinating-organisation"}

\* an entry of the organisation list
OrganisationEntry(role, share) ==
  JObject(<<
    <<"educationalInstitutionUrn", JString("string")>>,
    <<"organisationId", JString("string")>>,
    <<"roleUrn", JString(role)>>,
    <<"share", JNumber(share)>>
  >>)

\* an entry of the acceptor list
AcceptorEntry(id, role) ==
  SetAt(SetAt(GetAt(SISU_SWAGGER_UI_EXAMPLE_RESPONSE, <<"acceptorPersons", "0">>),
              <<"personId">>, JString(id)),
        <<"roleUrn">>, JString(role))

RECURSIVE Lists(_, _)
\* every list of at most n elements of a set
Lists(elems, n) ==
  IF n = 0 THEN {<<>>}
  ELSE LET shorter == Lists(elems, n - 1)
       IN  shorter \cup { Append(l, x) : l \in shorter, x \in elems }

\* the example record with another organisation list, acceptor list or share
ListRecords ==
  { SetAt(SISU_SWAGGER_UI_EXAMPLE_RESPONSE, <<"organisations">>, JArray(l)) :
      l \in Lists({ OrganisationEntry(r, s) : r \in OrganisationRoles,
                                              s \in {"0", "0.25", "0.5", "1.0", "1.5"} },
                  MaxList) }
  \cup
  { SetAt(SISU_SWAGGER_UI_EXAMPLE_RESPONSE, <<"acceptorPersons">>, JArray(l)) :
      l \in Lists({ AcceptorEntry("p1", "urn:code:attainment-acceptor-type:approved-by"),
                    AcceptorEntry("p2", "urn:code:attainment-acceptor-type:examiner"),
                    AcceptorEntry("p3", "urn:code:unknown-role") }, MaxList) }
  \cup
  { SetAt(SISU_SWAGGER_UI_EXAMPLE_RESPONSE, <<"organisations", "0", "share">>, JNumber(s)) :
      s \in ShareLiterals }

SourceRecords == Damaged(MaxDefects) \cup FieldRecords \cup ListRecords

NoValue == [none |-> TRUE]

----------------------------------------------------------------------------
(* The caller of the mapping: it holds one source record, has serde_json   *)
(* extract the attainment and hands the attainment to the mapping.         *)

Init ==
  /\ source \in SourceRecords
  /\ fn = "none"
  /\ arg = NoValue
  /\ ret = NoValue
  /\ pool = <<>>
  /\ built = {}

\* serde_json::from_str on the source record
Call_from_str ==
  /\ fn = "none"
  /\ source # NoValue
  /\ fn' = "from_str"
  /\ arg' = source
  /\ ret' = from_str(source)
  /\ UNCHANGED <<source, pool, built>>

\* to_europass_credential on the attainment that from_str returned
Call_to_europass_credential ==
  /\ fn = "from_str"
  /\ IsOk(ret)
  /\ fn' = "to_europass_credential"
  /\ arg' = ret.val
  /\ ret' = to_europass_credential(ret.val)
  /\ UNCHANGED <<source, pool, built>>

Next == Call_from_str \/ Call_to_europass_credential

Spec == Init /\ [][Next]_vars

----------------------------------------------------------------------------
(* The validators, each run on every input string *)

InitVocab ==
  /\ source = NoValue
  /\ fn = "none"
  /\ arg \in VocabInputs
  /\ ret = NoValue
  /\ pool = <<>>
  /\ built = {}

Call_MDRunit_try_from ==
  /\ fn = "none"
  /\ fn' = "MDRunit::try_from"
  /\ ret' = MDRunit_try_from(arg)
  /\ UNCHANGED <<arg, source, pool, built>>

Call_MDRcurrency_try_from ==
  /\ fn = "none"
  /\ fn' = "MDRcurrency::try_from"
  /\ ret' = MDRcurrency_try_from(arg)
  /\ UNCHANGED <<arg, source, pool, built>>

Call_RoleURN_from_str ==
  /\ fn = "none"
  /\ fn' = "RoleURN::from_str"
  /\ ret' = RoleURN_from_str(arg)
  /\ UNCHANGED <<arg, source, pool, built>>

Call_RoleURN_deserialize ==
  /\ fn = "none"
  /\ fn' = "RoleURN::deserialize"
  /\ ret' = RoleURN_deserialize(JString(arg))
  /\ UNCHANGED <<arg, source, pool, built>>

NextVocab ==
  \/ Call_MDRunit_try_from
  \/ Call_MDRcurrency_try_from
  \/ Call_RoleURN_from_str
  \/ Call_RoleURN_deserialize

SpecVocab == InitVocab /\ [][NextVocab]_vars

----------------------------------------------------------------------------
(* europass_learning_model.rs: the credentials.  The struct has no          *)
(* constructor function; its fields are private, so a value is built by    *)
(* the struct expression, inside the module.  A credential is a value: it   *)
(* is owned by a binding of the code that built it, by the Box of the       *)
(* credential that contains it, or by the verifiable credential that        *)
(* carries it.  A value that is moved leaves its binding.  The fields of    *)
(* a credential other than contains are taken as given.                     *)

\* the most credentials that are built
MaxNodes == 5

\* contains: None
None == 0

\* the credentials built so far
Credentials == 1..Len(pool)

\* a credential that takes the built credential for its own contents
EuropassCredential_selfcontained(identifier, contains) ==
  [identifier |-> identifier,
   contains |-> IF contains = None THEN None ELSE identifier,
   place |-> "binding"]

\* the struct expression EuropassCredential { identifier, .., contains }:
\* a new value, owned by the binding it is assigned to
EuropassCredential(identifier, contains) ==
  [identifier |-> identifier, contains |-> contains, place |-> "binding"]

\* a value that may be used again after it was moved into a Box
Owned_copied(c) == c \in Credentials /\ pool[c].place \in {"binding", "boxed"}

\* the credential is owned by a binding: the code can move it
Owned(c) == c \in Credentials /\ pool[c].place = "binding"

\* a Box that takes the contents out of the credential it is given
Box_new_taking(credentials, c) ==
  [credentials EXCEPT ![c].place = "boxed", ![c].contains = None]

\* Box::new(c): the credential moves from its binding into the box
Box_new(credentials, c) == [credentials EXCEPT ![c].place = "boxed"]

\* a credential with contains: None
Construct_EuropassCredential_None ==
  /\ Len(pool) < MaxNodes
  /\ pool' = Append(pool, EuropassCredential(Len(pool) + 1, None))
  /\ UNCHANGED <<fn, arg, ret, source, built>>

\* a credential with contains: Some(Box::new(c)), c a credential the code
\* owns
Construct_EuropassCredential_Some ==
  /\ Len(pool) < MaxNodes
  /\ \E c \in Credentials :
       /\ Owned(c)
       /\ pool' = Append(Box_new(pool, c), EuropassCredential(Len(pool) + 1, c))
  /\ UNCHANGED <<fn, arg, ret, source, built>>

\* VerifiableCredential { .., europass_credential: c }: the credential
\* moves into the verifiable credential
Construct_VerifiableCredential ==
  /\ \E c \in Credentials :
       /\ Owned(c)
       /\ pool' = [pool EXCEPT ![c].place = "carried"]
  /\ UNCHANGED <<fn, arg, ret, source, built>>

InitCredential ==
  /\ source = NoValue
  /\ fn = "none"
  /\ arg = NoValue
  /\ ret = NoValue
  /\ pool = <<>>
  /\ built = {}

NextCredential ==
  \/ Construct_EuropassCredential_None
  \/ Construct_EuropassCredential_Some
  \/ Construct_VerifiableCredential

SpecCredential == InitCredential /\ [][NextCredential]_vars

----------------------------------------------------------------------------
(* europass_learning_model.rs: the value types.  None of them has a        *)
(* constructor function; a value is built by the struct expression.  The   *)
(* unit of a Measure is an MDRunit and the unit of an Amount an            *)
(* MDRcurrency, whose one field is private to controlled_vocabularies.rs:  *)
(* outside that file an MDRcurrency is what MDRcurrency::try_from          *)
(* returned.  The fields of an Identifier and of a Code are Strings.       *)

\* the numeric contents of the measures and amounts, in thousandths
Contents == {0, 1500}

\* Measure { content, unit }
Measure(content, unit) == [content |-> content, unit |-> unit]

\* Amount { content, unit }
Amount(content, unit) == [content |-> content, unit |-> unit]

\* Identifier { content, identifier_scheme_id, identifier_scheme_version_id, .. }
Identifier(content, identifier_scheme_id, identifier_scheme_version_id) ==
  [content |-> content,
   identifier_scheme_id |-> identifier_scheme_id,
   identifier_scheme_version_id |-> identifier_scheme_version_id]

\* Code { target_notation, .. }
Code(target_notation) == [target_notation |-> target_notation]

\* a Measure whose unit is the unit MDRunit::try_from resolved the code to
Construct_Measure ==
  /\ fn = "MDRunit::try_from"
  /\ IsOk(ret)
  /\ fn' = "Measure"
  /\ \E content \in Contents : ret' = Ok(Measure(content, ret.val))
  /\ UNCHANGED <<arg, source, pool, built>>

\* a Measure whose unit is a variant of MDRunit, written in the code
Construct_Measure_of_variant ==
  /\ fn = "none"
  /\ fn' = "Measure"
  /\ \E content \in Contents, unit \in MDRunit : ret' = Ok(Measure(content, unit))
  /\ UNCHANGED <<arg, source, pool, built>>

\* an Amount whose unit is the MDRcurrency that MDRcurrency::try_from
\* returned for the code
Construct_Amount ==
  /\ fn = "MDRcurrency::try_from"
  /\ IsOk(ret)
  /\ fn' = "Amount"
  /\ \E content \in Contents : ret' = Ok(Amount(content, ret.val))
  /\ UNCHANGED <<arg, source, pool, built>>

\* an Identifier of the string the code holds, with or without a scheme id
\* and a scheme version id
Construct_Identifier ==
  /\ fn = "none"
  /\ fn' = "Identifier"
  /\ \E scheme \in {"", "scheme"}, version \in {"", "1.0"} :
       ret' = Ok(Identifier(arg, scheme, version))
  /\ UNCHANGED <<arg, source, pool, built>>

\* a Code whose notation is the string the code holds
Construct_Code ==
  /\ fn = "none"
  /\ fn' = "Code"
  /\ ret' = Ok(Code(arg))
  /\ UNCHANGED <<arg, source, pool, built>>

NextValues ==
  \/ Call_MDRunit_try_from
  \/ Call_MDRcurrency_try_from
  \/ Construct_Measure
  \/ Construct_Measure_of_variant
  \/ Construct_Amount
  \/ Construct_Identifier
  \/ Construct_Code

SpecValues == InitVocab /\ [][NextValues]_vars

----------------------------------------------------------------------------
(* sisu_attainment.rs: several source records in one JSON array, as the    *)
(* helper of the tests reads them                                          *)

\* the records of the arrays
BatchRecords ==
  { SISU_SWAGGER_UI_EXAMPLE_RESPONSE,
    SetAt(SISU_SWAGGER_UI_EXAMPLE_RESPONSE, <<"id">>, JString("second")),
    SetAt(SISU_SWAGGER_UI_EXAMPLE_RESPONSE, <<"id">>, JString("third")),
    SetAt(SISU_SWAGGER_UI_EXAMPLE_RESPONSE, <<"organisations", "0", "share">>, JNumber("1.0")),
    SetAt(SISU_SWAGGER_UI_EXAMPLE_RESPONSE, <<"attainmentDate">>, JString("2019-13-01")),
    SetAt(SISU_SWAGGER_UI_EXAMPLE_RESPONSE, <<"documentState">>, JString("draft")),
    SetAt(SISU_SWAGGER_UI_EXAMPLE_RESPONSE, <<"acceptorPersons", "0", "roleUrn">>,
          JString("urn:code:unknown-role")),
    RemoveAt(SISU_SWAGGER_UI_EXAMPLE_RESPONSE, <<"attainmentDate">>) }

\* serde_json::from_str::<Vec<SISUAttainment>>, on the array the text holds
from_str_vec(array) == Deserialize("Vec<SISUAttainment>", array)

\* tests::parse_example_attainment after its call of serde_json::from_str:
\* the match on the result att_vec and the pop of the last attainment; the
\* helper panics when the array did not parse or is empty
parse_example_attainment(att_vec) ==
  IF ~att_vec.ok THEN Panic("Could not parse example SISU attainment")
  ELSE IF Len(att_vec.val) = 0 THEN Panic("No attainment in JSON array!")
  ELSE Ok(att_vec.val[Len(att_vec.val)])

InitBatch ==
  /\ source \in { JArray(l) : l \in Lists(BatchRecords, MaxList) }
  /\ fn = "none"
  /\ arg = NoValue
  /\ ret = NoValue
  /\ pool = <<>>
  /\ built = {}

\* serde_json::from_str on the array
Call_from_str_vec ==
  /\ fn = "none"
  /\ fn' = "from_str_vec"
  /\ arg' = source
  /\ ret' = from_str_vec(source)
  /\ UNCHANGED <<source, pool, built>>

\* the rest of the helper, once its serde_json::from_str has returned
Call_parse_example_attainment ==
  /\ fn = "from_str_vec"
  /\ fn' = "parse_example_attainment"
  /\ arg' = source
  /\ ret' = parse_example_attainment(ret)
  /\ UNCHANGED <<source, pool, built>>

NextBatch == Call_from_str_vec \/ Call_parse_example_attainment

SpecBatch == InitBatch /\ [][NextBatch]_vars

----------------------------------------------------------------------------
(* europass_credential.rs: the second copy of the two validators *)

\* the arms of the match in MDRunit::try_from of europass_credential.rs, in
\* source order: pattern, variant
europass_credential_MDRunit_arms ==
  <<
    <<"2N", "Decibel">>, <<"3C", "Manmonth">>, <<"AD", "Byte">>, <<"AMP", "Ampere">>,
    <<"BAR", "Bar">>, <<"BIT", "Bit">>, <<"BQL", "Becquerel">>, <<"C34", "Mole">>,
    <<"C45", "Nanometre">>, <<"CDL", "Candela">>, <<"CEL", "DegreeCelsius">>, <<"CMK", "SquareCentimetre">>,
    <<"CMQ", "CubicCentimetre">>, <<"CMT", "Centimetre">>, <<"D30", "TeraJoule">>, <<"E34", "GigaByte">>,
    <<"GRM", "Gram">>, <<"GTE", "GrossTonnage">>, <<"GWH", "GigaWattHour">>, <<"HAR", "Hectare">>,
    <<"HLT", "HectoLitre">>, <<"HTZ", "Hertz">>, <<"HUR", "Hour">>, <<"JOU", "Joule">>,
    <<"KEL", "Kelvin">>, <<"KGM", "Kilogram">>, <<"KMH", "KilometrePerHour">>, <<"KMK", "SquareKilometre">>,
    <<"KTM", "Kilometre">>, <<"KWH", "KiloWattHour">>, <<"KWT", "KiloWatt">>, <<"LH", "LabourHour">>,
    <<"LTR", "Litre">>, <<"MAW", "MegaWatt">>, <<"MGM", "MilliGram">>, <<"MIN", "Minute">>,
    <<"MLT", "MilliLitre">>, <<"MMT", "MilliMetre">>, <<"MTK", "SquareMetre">>, <<"MTR", "Metre">>,
    <<"MTS", "MetrePerSecond">>, <<"NEW", "Newton">>, <<"PAL", "Pascal">>, <<"SEC", "Second">>,
    <<"TKM", "TonneKilometre">>, <<"TNE", "Tonne">>, <<"TOE", "TonneOfOilEquvalent">>, <<"VLT", "Volt">>,
    <<"WTT", "Watt">>
  >>

\* impl TryFrom<&str> for MDRunit, in europass_credential.rs
europass_credential_MDRunit_try_from(value) ==
  LET patterns == [i \in 1..Len(europass_credential_MDRunit_arms) |->
                     europass_credential_MDRunit_arms[i][1]]
      i == MatchArm(patterns, value)
  IN  IF i > 0 THEN Ok(europass_credential_MDRunit_arms[i][2])
      ELSE Err("Could not form a Europass measure from a string")

\* the patterns of the match in MDRcurrency::try_from of
\* europass_credential.rs, in source order; every arm is
\* Ok(MDRcurrency {code: String::from(value)})
europass_credential_MDRcurrency_arms ==
  <<
    "ADP", "AED", "AFA", "AFN", "ALK", "ALL", "AMD", "ANG", "AOA", "AON", "AOR", "ARA",
    "ARM", "ARP", "ARS", "ATS", "AUD", "AWG", "AZM", "AZN", "BAM", "BBD", "BDT", "BEF",
    "BGJ", "BGK", "BGL", "BGN", "BHD", "BIF", "BMD", "BND", "BOB", "BOP", "BOV", "BRB",
    "BRC", "BRE", "BRL", "BRN", "BRR", "BRZ", "BSD", "BTN", "BWP", "BYN", "BYR", "BZD",
    "CAD", "CDF", "CHE", "CHF", "CHW", "CLE", "CLF", "CLP", "CNY", "COP", "COU", "CRC",
    "CSJ", "CSK", "CUC", "CUP", "CVE", "CYP", "CZK", "DDM", "DEM", "DJF", "DKK", "DOP",
    "DZD", "ECS", "EEK", "EGP", "ERN", "ESP", "ETB", "EUR", "FIM", "FJD", "FKP", "FRF",
    "GBP", "GEL", "GHC", "GHS", "GIP", "GMD", "GNE", "GNF", "GQE", "GRD", "GTQ", "GWP",
    "GYD", "HKD", "HNL", "HRK", "HTG", "HUF", "IDR", "IEP", "ILP", "ILR", "ILS", "INR",
    "IQD", "IRR", "ISJ", "ISK", "ITL", "JMD", "JOD", "JPY", "KES", "KGS", "KHR", "KMF",
    "KPW", "KRW", "KWD", "KYD", "KZT", "LAJ", "LAK", "LBP", "LKR", "LRD", "LSL", "LTL",
    "LUF", "LVL", "LYD", "MAD", "MDL", "MGA", "MGF", "MKD", "MLF", "MMK", "MNT", "MOP",
    "MRO", "MRU", "MTL", "MTP", "MUR", "MVQ", "MVR", "MWK", "MXN", "MXP", "MXV", "MYR",
    "MZM", "MZN", "NAD", "NFD", "NGN", "NIO", "NLG", "NOK", "NPR", "NZD", "OMR", "PAB",
    "PEH", "PEI", "PEN", "PGK", "PHP", "PKR", "PLN", "PLZ", "PTE", "PYG", "QAR", "ROL",
    "RON", "RSD", "RUB", "RUR", "RWF", "SAR", "SBD", "SCR", "SDD", "SDG", "SEK", "SGD",
    "SHP", "SIT", "SKK", "SLL", "SOS", "SRD", "SRG", "SSP", "STD", "STN", "SUR", "SVC",
    "SYP", "SZL", "THB", "TJR", "TJS", "TMM", "TMT", "TND", "TOP", "TPE", "TRL", "TRY",
    "TTD", "TWD", "TZS", "UAH", "UAK", "UGS", "UGX", "USD", "USN", "USS", "UYI", "UYN",
    "UYU", "UYW", "UZS", "VEB", "VEF", "VES", "VNC", "VND", "VUV", "WST", "XAF", "XAG",
    "XAU", "XBA", "XBB", "XBC", "XBD", "XCD", "XDR", "XEU", "XOF", "XPD", "XPF", "XPT",
    "XSU", "XTS", "XUA", "XXX", "YDD", "YER", "YUD", "YUF", "YUM", "YUN", "YUS", "ZAR",
    "ZMK", "ZMW", "ZRN", "ZRZ", "ZWC", "ZWD", "ZWL", "ZWN", "ZWR"
  >>

\* impl TryFrom<&str> for MDRcurrency, in europass_credential.rs
europass_credential_MDRcurrency_try_from(value) ==
  IF MatchArm(europass_credential_MDRcurrency_arms, value) > 0
  THEN Ok([code |-> value])
  ELSE Err("Could not form an MDR standard currency code from string " \o value)

Call_europass_credential_MDRunit_try_from ==
  /\ fn = "none"
  /\ fn' = "europass_credential::MDRunit::try_from"
  /\ ret' = europass_credential_MDRunit_try_from(arg)
  /\ UNCHANGED <<arg, source, pool, built>>

Call_europass_credential_MDRcurrency_try_from ==
  /\ fn = "none"
  /\ fn' = "europass_credential::MDRcurrency::try_from"
  /\ ret' = europass_credential_MDRcurrency_try_from(arg)
  /\ UNCHANGED <<arg, source, pool, built>>

NextCopies ==
  \/ Call_MDRunit_try_from
  \/ Call_MDRcurrency_try_from
  \/ Call_europass_credential_MDRunit_try_from
  \/ Call_europass_credential_MDRcurrency_try_from

SpecCopies == InitVocab /\ [][NextCopies]_vars

----------------------------------------------------------------------------
(* europass_learning_model.rs: which structs can have a value.  A struct   *)
(* expression needs a value for every field.  The structs without a field  *)
(* of a struct type that itself has such fields (Identifier, Text, Code,   *)
(* Location, URI, ..) and the types of chrono and of                       *)
(* controlled_vocabularies.rs are taken as given; listed are the other     *)
(* structs, each with its fields of a listed struct type, name and type    *)
(* as declared.                                                            *)

STRUCTS ==
  <<
    [name |-> "VerifiableCredential",
     fields |-> <<
        <<"europass_credential", "EuropassCredential">> >>],
    [name |-> "EuropassCredential",
     fields |-> <<
        <<"issuer", "Organisation">>,
        <<"credential_subject", "Person">>,
        <<"proof", "Proof">>,
        <<"contains", "Option<Box<EuropassCredential>>">> >>],
    [name |-> "Proof", fields |-> << >>],
    [name |-> "Agent",
     fields |-> <<
        <<"contact_point", "ContactInformation">> >>],
    [name |-> "Person",
     fields |-> <<
        <<"performed", "LearningActivity">>,
        <<"achieved", "LearningAchievement">>,
        <<"entitled_to", "Entitlement">> >>],
    [name |-> "Organisation",
     fields |-> <<
        <<"has_accreditation", "Accreditation">>,
        <<"has_unit", "Box<Organisation>">>,
        <<"unit_of", "Box<Organisation>">> >>],
    [name |-> "ContactInformation", fields |-> << >>],
    [name |-> "Accreditation",
     fields |-> <<
        <<"organisation", "Box<Organisation>">>,
        <<"limit_qualification", "Qualification">>,
        <<"accrediting_agent", "Box<Organisation>">> >>],
    [name |-> "VerifiablePresentation", fields |-> << >>],
    [name |-> "EuropassPresentation",
     fields |-> <<
        <<"verfiable_credential", "EuropassCredential">>,
        <<"verification_check", "VerificationCheck">>,
        <<"proof", "Proof">> >>],
    [name |-> "VerificationCheck",
     fields |-> <<
        <<"subject", "EuropassCredential">> >>],
    [name |-> "LearningSpecification",
     fields |-> <<
        <<"learning_outcome", "LearningOutcome">>,
        <<"learning_activity_specification", "LearningActivitySpecification">>,
        <<"assessment_sppecification", "AssessmentSpecification">>,
        <<"entitlement_specification", "EntitlementSpecification">>,
        <<"awarding_opportunity", "AwardingOpportunity">>,
        <<"has_part", "Box<LearningSpecification>">>,
        <<"specialisation_of", "Box<LearningSpecification>">> >>],
    [name |-> "Qualification",
     fields |-> <<
        <<"has_accreditation", "Box<Accreditation>">> >>],
    [name |-> "LearningOutcome", fields |-> << >>],
    [name |-> "LearningActivitySpecification",
     fields |-> <<
        <<"teaches", "Box<LearningSpecification>">>,
        <<"has_part", "Box<LearningActivitySpecification>">>,
        <<"specialisation_of", "Box<LearningActivitySpecification>">> >>],
    [name |-> "LearningActivity",
     fields |-> <<
        <<"directed_by", "Agent">>,
        <<"specified_by", "LearningActivitySpecification">>,
        <<"has_part", "Box<LearningActivity>">> >>],
    [name |-> "AssessmentSpecification",
     fields |-> <<
        <<"proves", "Box<LearningSpecification>">>,
        <<"has_part", "Box<AssessmentSpecification>">>,
        <<"specialisation_of", "Box<AssessmentSpecification>">> >>],
    [name |-> "Assessment",
     fields |-> <<
        <<"shortened_grading", "ShortenedGrading">>,
        <<"result_distribution", "ResultDistribution">>,
        <<"assessed_by", "Agent">>,
        <<"specified_by", "AssessmentSpecification">>,
        <<"has_part", "Box<Assessment>">> >>],
    [name |-> "ShortenedGrading", fields |-> << >>],
    [name |-> "ResultDistribution",
     fields |-> <<
        <<"category", "ResultCategory">> >>],
    [name |-> "ResultCategory", fields |-> << >>],
    [name |-> "GradingScheme", fields |-> << >>],
    [name |-> "LearningAchievement",
     fields |-> <<
        <<"was_derived_from", "Assessment">>,
        <<"was_influenced_by", "LearningActivity">>,
        <<"was_awarded_by", "AwardingProcess">>,
        <<"has_part", "Box<LearningAchievement>">>,
        <<"entitles_to", "Entitlement">>,
        <<"specfied_by", "LearningSpecification">> >>],
    [name |-> "QualificationAwarded",
     fields |-> <<
        <<"specified_by", "Qualification">> >>],
    [name |-> "AwardingProcess",
     fields |-> <<
        <<"used", "Assessment">>,
        <<"learning_achievement", "Box<LearningAchievement>">>,
        <<"awarding_body", "Organisation">> >>],
    [name |-> "AwardingOpportunity",
     fields |-> <<
        <<"awarding_body", "Organisation">> >>],
    [name |-> "Entitlement",
     fields |-> <<
        <<"specified_by", "EntitlementSpecification">>,
        <<"was_derived_from", "Box<LearningAchievement>">>,
        <<"has_part", "Box<Entitlement>">> >>],
    [name |-> "EntitlementSpecification",
     fields |-> <<
        <<"limit_organisation", "Organisation">>,
        <<"may_result_from", "Box<LearningSpecification>">>,
        <<"entitlement_specification", "Box<EntitlementSpecification>">>,
        <<"specialization_of", "Box<EntitlementSpecification>">> >>]
  >>

\* the structs listed
Composites == { STRUCTS[i].name : i \in 1..Len(STRUCTS) }

\* the struct that a field of the type needs a value of: none ("") for
\* Option<T> and Vec<T>, which have the values None and vec![], T for
\* Box<T>, the type itself otherwise
Needs(ty) ==
  IF starts_with(ty, "Option<") \/ starts_with(ty, "Vec<") THEN ""
  ELSE IF starts_with(ty, "Box<") THEN SubSeq(ty, 5, Len(ty) - 1)
  ELSE ty

\* the structs a struct expression of the struct needs a value of
Required(struct) ==
  { Needs(struct.fields[k][2]) : k \in 1..Len(struct.fields) } \ {""}

\* the struct expression of a struct, of values built before
Construct ==
  /\ \E i \in 1..Len(STRUCTS) :
       /\ STRUCTS[i].name \notin built
       /\ Required(STRUCTS[i]) \subseteq built
       /\ built' = built \cup {STRUCTS[i].name}
  /\ UNCHANGED <<fn, arg, ret, source, pool>>

InitStructs ==
  /\ source = NoValue
  /\ fn = "none"
  /\ arg = NoValue
  /\ ret = NoValue
  /\ pool = <<>>
  /\ built = {}

NextStructs == Construct

SpecStructs == InitStructs /\ [][NextStructs]_vars

----------------------------------------------------------------------------
(* What the properties below speak about *)

\* the mapping of the source record has ended: extraction failed, or
\* to_europass_credential was run on the attainment
MappingEnded ==
  \/ fn = "from_str" /\ IsErr(ret)
  \/ fn = "to_europass_credential"

\* the caller holds a Credential
HoldsCredential == fn = "to_europass_credential" /\ IsOk(ret)

Contains(s, sub) ==
  \E i \in 1..(Len(s) - Len(sub) + 1) : SubSeq(s, i, i + Len(sub) - 1) = sub

Last(seq) == seq[Len(seq)]

IsLeafType(ty) == ty \notin StructNames /\ VecElem(ty) = ""

LeafPaths == { fp.path : fp \in { f \in FieldPaths : IsLeafType(f.ty) } }

\* the record is the example record but for the value at path p
OnlyEditedAt(record, p) ==
  \A q \in LeafPaths \ {p} :
    HasAt(record, q) /\ GetAt(record, q) = GetAt(SISU_SWAGGER_UI_EXAMPLE_RESPONSE, q)

\* every value the record has is the value of the example record
OnlyRemovals(record) ==
  \A q \in LeafPaths :
    HasAt(record, q) => GetAt(record, q) = GetAt(SISU_SWAGGER_UI_EXAMPLE_RESPONSE, q)

\* the fields the record lacks, of the structs it has
MissingPaths(record) ==
  { q \in { fp.path : fp \in FieldPaths } :
      HasAt(record, SubSeq(q, 1, Len(q) - 1)) /\ ~HasAt(record, q) }

RECURSIVE ParsedAt(_, _, _)
\* the field of the extracted attainment that was read from path
ParsedAt(ty, val, path) ==
  IF path = <<>> THEN val
  ELSE IF VecElem(ty) # ""
       THEN ParsedAt(VecElem(ty), val[IndexIn(Digits, Head(path))], Tail(path))
       ELSE LET f == StructDef(ty).fields[FieldIndex(ty, Head(path))]
            IN  ParsedAt(f.ty, val[f.name], Tail(path))

\* the string at path p of the record is s
StringAt(record, p, s) ==
  HasAt(record, p) /\ GetAt(record, p).t = "string" /\ GetAt(record, p).s = s

----------------------------------------------------------------------------
(* C1, C2: the outcomes of the mapping *)

\* C1: the mapping of a source record ends in one of two ways, a Credential
\* or an error, and a mapping that ended in an error hands the caller no
\* Credential.
C1_CredentialOrError ==
  MappingEnded =>
    /\ IsErr(ret) \/ HoldsCredential
    /\ IsErr(ret) => ~HoldsCredential

\* C2: every call of the mapping returns a value, a Credential or an error:
\* it never panics.
C2_MappingReturns ==
  fn \in {"from_str", "to_europass_credential"} => ~IsPanic(ret)

----------------------------------------------------------------------------
(* C3, C4: the currency and the measurement-unit validators *)

\* s is no code of the table, and differs from one by its letter case, by
\* white space around it, or by being a proper prefix or an extension of it
NearCode(s, table) ==
  /\ s \notin table
  /\ \/ to_ascii_uppercase(s) \in table
     \/ trim(s) \in table
     \/ \E c \in table : starts_with(c, s) \/ starts_with(s, c)

\* C3: MDRcurrency::try_from succeeds for exactly the codes of the currency
\* table, with the input as the code of the term; every other string is an
\* error, also one that differs from a code by letter case, white space, or
\* as a proper prefix or an extension.
C3_CurrencyExact ==
  fn = "MDRcurrency::try_from" =>
    /\ IsOk(ret) <=> arg \in Range(MDRcurrency_arms)
    /\ IsOk(ret) => ret.val.code = arg
    /\ ~IsOk(ret) => IsErr(ret)
    /\ NearCode(arg, Range(MDRcurrency_arms)) => IsErr(ret)
    /\ arg = "EUR" => IsOk(ret)
    /\ arg \in {"eur", "Eur", " EUR", "EUR ", "EU", "EURO", "XYZ", ""} => IsErr(ret)

C3_Witness ==
  fn = "MDRcurrency::try_from" /\ arg = "eur" /\ IsErr(ret)

\* C4: MDRunit::try_from returns, for a code of the unit table, the unit the
\* table pairs with it ("HUR" Hour, "MIN" Minute) and an error for every
\* other string; the match is exact and case-sensitive.
C4_UnitExact ==
  fn = "MDRunit::try_from" =>
    /\ IsOk(ret) <=> arg \in Range(MDRunit_patterns)
    /\ IsOk(ret) => /\ ret.val \in MDRunit
                    /\ \E i \in 1..Len(MDRunit_arms) : MDRunit_arms[i] = <<arg, ret.val>>
    /\ ~IsOk(ret) => IsErr(ret)
    /\ NearCode(arg, Range(MDRunit_patterns)) => IsErr(ret)
    /\ arg = "HUR" => IsOk(ret) /\ ret.val = "Hour"
    /\ arg = "MIN" => IsOk(ret) /\ ret.val = "Minute"
    /\ arg \in {"hur", "Hur", "min", " HUR", "HUR ", "HU", "HURS", "L", "LHX", ""} => IsErr(ret)

C4_Witness ==
  fn = "MDRunit::try_from" /\ arg = "HUR" /\ IsOk(ret) /\ ret.val = "Hour"

----------------------------------------------------------------------------
(* C5, C6, C7: role URNs and the other URN fields *)

\* the twelve role URNs of an acceptor
KnownRoleURNs ==
  { "urn:code:attainment-acceptor-type:" \o r :
      r \in {"approved-by", "coordinating-supervisor", "coordinating-professor",
             "supervising-professor", "more-supervising-professor", "examinator",
             "supervisor", "thesis-advisor", "examiner", "preliminary-examiner",
             "opponent", "custos"} }

AcceptorRolePath == <<"acceptorPersons", "0", "roleUrn">>

\* C5: a record whose acceptor has a roleUrn that is no known role URN
\* yields an error that carries the domain ("role") and the raw value, and
\* no Credential.
C5_UnknownRoleError ==
  /\ fn # "none"
  /\ HasAt(source, AcceptorRolePath)
  /\ GetAt(source, AcceptorRolePath).t = "string"
  /\ GetAt(source, AcceptorRolePath).s \notin KnownRoleURNs
  => /\ IsErr(ret)
     /\ ret.err.what = GetAt(source, AcceptorRolePath).s
     /\ Contains(to_ascii_lowercase(ret.err.kind \o " " \o ret.err.expected), "role")

\* a URN field of the record holds a URN that no table of the code lists
HasUnknownUrn(record) ==
  \E p \in UrnPaths : \E u \in UnknownURNs : StringAt(record, p, u)

\* C6: a URN in a URN field of the record that the registry does not list
\* makes the mapping fail: no operation accepts the record with the value
\* as it is or replaced by a placeholder.
C6_UnknownUrnFails ==
  fn # "none" /\ HasUnknownUrn(source) => IsErr(ret)

RECURSIVE kebab_case(_, _)
\* the words of a variant name in lower case, joined by "-"
kebab_case(variant, i) ==
  IF i > Len(variant) THEN ""
  ELSE (IF i > 1 /\ is_uppercase(CharAt(variant, i)) THEN "-" ELSE "")
       \o char_to_ascii_lowercase(CharAt(variant, i)) \o kebab_case(variant, i + 1)

\* C7: each of the twelve role URNs resolves to its own role, and
\* deserialization and from_str agree, on success and on failure, for
\* every string.
C7_RolePathsAgree ==
  /\ fn = "RoleURN::deserialize" =>
       /\ IsOk(ret) <=> arg \in KnownRoleURNs
       /\ IsOk(ret) => arg = "urn:code:attainment-acceptor-type:" \o kebab_case(ret.val, 1)
       /\ IsOk(ret) <=> IsOk(RoleURN_from_str(arg))
       /\ IsOk(ret) => ret.val = RoleURN_from_str(arg).val
  /\ fn = "RoleURN::from_str" =>
       /\ IsOk(ret) <=> arg \in KnownRoleURNs
       /\ IsOk(ret) => arg = "urn:code:attainment-acceptor-type:" \o kebab_case(ret.val, 1)
       /\ IsOk(ret) <=> IsOk(RoleURN_deserialize(JString(arg)))

C7_Witness ==
  /\ fn = "RoleURN::deserialize"
  /\ arg = "urn:code:attainment-acceptor-type:more-supervising-professor"
  /\ IsOk(ret) /\ ret.val = "MoreSupervisingProfessor"

----------------------------------------------------------------------------
(* C8: a field the record lacks *)

----------------------------------------------------------------------------
(* C9: the date fields *)

RECURSIVE Decimal(_)
\* the number a string of decimal digits writes
Decimal(s) ==
  IF s = "" THEN 0
  ELSE 10 * Decimal(SubSeq(s, 1, Len(s) - 1))
       + (CHOOSE d \in 0..9 : CharAt(Digits, d + 1) = CharAt(s, Len(s)))

AllDigits(s) == s # "" /\ \A i \in 1..Len(s) : is_digit(CharAt(s, i))

CalendarDays(y, m) ==
  IF m = 2 THEN (IF (y % 4 = 0 /\ y % 100 # 0) \/ y % 400 = 0 THEN 29 ELSE 28)
  ELSE IF m \in {4, 6, 9, 11} THEN 30 ELSE 31

IsCalendarDate(y, m, d) == m \in 1..12 /\ d \in 1..CalendarDays(y, m)

\* s is YYYY-MM-DD, the date of a calendar day
StrictDate(s) ==
  /\ Len(s) = 10
  /\ CharAt(s, 5) = "-" /\ CharAt(s, 8) = "-"
  /\ AllDigits(SubSeq(s, 1, 4)) /\ AllDigits(SubSeq(s, 6, 7)) /\ AllDigits(SubSeq(s, 9, 10))
  /\ IsCalendarDate(Decimal(SubSeq(s, 1, 4)), Decimal(SubSeq(s, 6, 7)), Decimal(SubSeq(s, 9, 10)))

StrictValue(s) ==
  [year |-> Decimal(SubSeq(s, 1, 4)), month |-> Decimal(SubSeq(s, 6, 7)),
   day |-> Decimal(SubSeq(s, 9, 10))]

\* a group of digits that writes a year: at most four digits, or any number
\* of digits after a sign
YearGroup(g) ==
  \/ AllDigits(g) /\ Len(g) <= 4
  \/ Len(g) > 1 /\ CharAt(g, 1) \in {"+", "-"} /\ AllDigits(Tail(g))

YearOf(g) ==
  IF CharAt(g, 1) = "-" THEN 0 - Decimal(Tail(g))
  ELSE IF CharAt(g, 1) = "+" THEN Decimal(Tail(g))
  ELSE Decimal(g)

\* cutting s at the "-" at i and the "-" at j leaves a year, a month and a
\* day in digits (white space may surround the groups) that name a day of
\* the calendar
DateSplit(s, i, j) ==
  /\ CharAt(s, i) = "-" /\ CharAt(s, j) = "-"
  /\ LET y == trim(SubSeq(s, 1, i - 1))
         m == trim(SubSeq(s, i + 1, j - 1))
         d == trim(SubSeq(s, j + 1, Len(s)))
     IN  /\ YearGroup(y)
         /\ AllDigits(m) /\ Len(m) <= 2
         /\ AllDigits(d) /\ Len(d) <= 2
         /\ IsCalendarDate(YearOf(y), Decimal(m), Decimal(d))

DateValue(s, i, j) ==
  [year |-> YearOf(trim(SubSeq(s, 1, i - 1))),
   month |-> Decimal(trim(SubSeq(s, i + 1, j - 1))),
   day |-> Decimal(trim(SubSeq(s, j + 1, Len(s))))]

\* s writes the date
Denotes(s, date) ==
  \E i \in 1..Len(s) : \E j \in (i+1)..Len(s) :
    DateSplit(s, i, j) /\ date = DateValue(s, i, j)

\* s writes a date: year, month and day, in this order, with "-" between
WellFormedDate(s) ==
  \E i \in 1..Len(s) : \E j \in (i+1)..Len(s) : DateSplit(s, i, j)

----------------------------------------------------------------------------
(* C10: the enumerated fields *)

\* the documented literals of each enumerated field
Literals(ty) ==
  CASE ty = "DocumentState" -> {"DRAFT", "ACTIVE", "DELETED"}
    [] ty = "AttainmentState" -> {"ATTAINED", "INCLUDED", "SUBSTITUTED", "FAILED"}
    [] ty = "AttainmentType" ->
         {"AssessmentItemAttainment", "CourseUnitAttainment", "ModuleAttainment"}
    [] ty = "AverageCalculationMethod" ->
         {"COURSE_UNIT_ARITHMETIC_MEAN_WEIGHTING_BY_CREDITS",
          "ARITHMETIC_MEAN_WEIGHTING_BY_CREDITS"}

RECURSIVE FoldName(_)
\* a name without its "_" and in lower case
FoldName(s) ==
  IF s = "" THEN ""
  ELSE IF Head(s) = "_" THEN FoldName(Tail(s))
  ELSE char_to_ascii_lowercase(Head(s)) \o FoldName(Tail(s))

\* C10: in an enumerated field a literal of the documented set resolves to
\* the variant of that name, and every other string, a literal in another
\* letter case too, is an error of the extraction, never a default.
C10_Enums ==
  fn = "from_str" =>
    \A ty \in EnumNames : \A p \in PathsOfType(ty) :
      HasAt(source, p) /\ GetAt(source, p).t = "string" =>
        LET s == GetAt(source, p).s IN
        /\ s \in Literals(ty) /\ OnlyEditedAt(source, p) => IsOk(ret)
        /\ IsOk(ret) =>
             /\ s \in Literals(ty)
             /\ FoldName(ParsedAt("SISUAttainment", ret.val, p)) = FoldName(s)
        /\ s \notin Literals(ty) =>
             /\ IsErr(ret)
             /\ OnlyEditedAt(source, p) =>
                  ret.err.kind = "unknown_variant" /\ ret.err.what = s

C10_Witness ==
  /\ fn = "from_str"
  /\ StringAt(source, <<"documentState">>, "draft")
  /\ OnlyEditedAt(source, <<"documentState">>)
  /\ IsErr(ret) /\ ret.err.kind = "unknown_variant"

----------------------------------------------------------------------------
(* C11, C12: the shares of the organisation list *)

\* the entries of the organisation list of a record
OrgItems(record) ==
  IF HasAt(record, <<"organisations">>) /\ GetAt(record, <<"organisations">>).t = "array"
  THEN GetAt(record, <<"organisations">>).items
  ELSE <<>>

\* the entry has a role URN and a share
IsOrgEntry(item) ==
  /\ item.t = "object"
  /\ HasAt(item, <<"share">>) /\ GetAt(item, <<"share">>).t = "number"
  /\ HasAt(item, <<"roleUrn">>) /\ GetAt(item, <<"roleUrn">>).t = "string"

\* the share of an entry, in thousandths
ShareOf(item) == as_f64(Number_from_literal(GetAt(item, <<"share">>).n))

RoleOf(item) == GetAt(item, <<"roleUrn">>).s



\* the record has an organisation whose share is not in (0, 1]
HasShareOutOfRange(record) ==
  \E i \in 1..Len(OrgItems(record)) :
    /\ IsOrgEntry(OrgItems(record)[i])
    /\ ~(ShareOf(OrgItems(record)[i]) > 0 /\ ShareOf(OrgItems(record)[i]) <= 1000)

\* C11: a record with an organisation whose share is not in (0, 1] (0, a
\* negative share, a share above 1) yields an error, and no Credential.
C11_ShareInRange ==
  fn # "none" /\ HasShareOutOfRange(source) => IsErr(ret)

RECURSIVE SumShares(_, _, _)
\* the sum of the shares of the entries from i on that have the role
SumShares(items, role, i) ==
  IF i > Len(items) THEN 0
  ELSE (IF RoleOf(items[i]) = role THEN ShareOf(items[i]) ELSE 0)
       + SumShares(items, role, i + 1)

\* the shares of some role of the organisation list do not sum to one
HasRoleSumNotOne(record) ==
  /\ \A i \in 1..Len(OrgItems(record)) : IsOrgEntry(OrgItems(record)[i])
  /\ \E i \in 1..Len(OrgItems(record)) :
       SumShares(OrgItems(record), RoleOf(OrgItems(record)[i]), 1) # 1000

\* C12: a record in which the shares of the entries of some role do not sum
\* to one (0.5, say) yields an error and no Credential.
C12_SharesSumToOne ==
  fn # "none" /\ HasRoleSumNotOne(source) => IsErr(ret)

----------------------------------------------------------------------------
(* C13: the order in which the defects of a record are found *)

\* every leaf value the record has is of the JSON type the example record
\* has there: the defects of the record are fields it lacks, codes that do
\* not resolve, and strings that are no date
WellTyped(record) ==
  \A q \in LeafPaths :
    HasAt(record, q) => GetAt(record, q).t = GetAt(SISU_SWAGGER_UI_EXAMPLE_RESPONSE, q).t

\* the record has a code that does not resolve: an acceptor role URN that
\* is no role, or a string that is no variant of its enum
HasUnresolvedCode(record) ==
  \/ /\ HasAt(record, AcceptorRolePath) /\ GetAt(record, AcceptorRolePath).t = "string"
     /\ GetAt(record, AcceptorRolePath).s \notin KnownRoleURNs
  \/ \E ty \in EnumNames : \E p \in PathsOfType(ty) :
       /\ HasAt(record, p) /\ GetAt(record, p).t = "string"
       /\ GetAt(record, p).s \notin Range(VariantNames(ty))

\* C13: the defects of a record are found stage by stage, extraction before
\* code resolution before date normalization: a record that lacks a field
\* yields the missing-field error whatever codes and dates it holds, and a
\* record that lacks none and holds an unresolved code yields that code's
\* error whatever dates it holds.
C13_EarliestStage ==
  fn = "from_str" /\ WellTyped(source) =>
    /\ MissingPaths(source) # {} => IsErr(ret) /\ ret.err.kind = "missing_field"
    /\ MissingPaths(source) = {} /\ HasUnresolvedCode(source) =>
         IsErr(ret) /\ ret.err.kind \in {"invalid_value", "unknown_variant"}

----------------------------------------------------------------------------
(* C14: the mapping of a minimal valid record *)

\* the record is the minimal valid one: an acceptor approved-by, the
\* document state DRAFT, the attainment date 2019-01-01, no credits, one
\* organisation with the share one, and no field missing or of another type
IsMinimalValid(record) ==
  /\ MissingPaths(record) = {} /\ WellTyped(record)
  /\ StringAt(record, AcceptorRolePath, "urn:code:attainment-acceptor-type:approved-by")
  /\ StringAt(record, <<"documentState">>, "DRAFT")
  /\ StringAt(record, <<"attainmentDate">>, "2019-01-01")
  /\ as_f64(Number_from_literal(GetAt(record, <<"credits">>).n)) = 0
  /\ Len(OrgItems(record)) = 1
  /\ IsOrgEntry(OrgItems(record)[1]) /\ ShareOf(OrgItems(record)[1]) = 1000

\* C14: the mapping of a minimal valid record succeeds: extraction accepts
\* the record and to_europass_credential returns a Credential.
C14_MinimalRecordMaps ==
  IsMinimalValid(source) =>
    /\ fn = "from_str" => IsOk(ret)
    /\ fn = "to_europass_credential" => IsOk(ret)

----------------------------------------------------------------------------
(* C15: extraction preserves the values of the record *)

\* the JSON key and the field of every string of the attainment
StringFields ==
  { <<"attainmentLanguageUrn", "attainment_language_urn">>,
    <<"gradeScaleId", "grade_scale_id">>,
    <<"id", "id">>,
    <<"misregistrationRationale", "misregistration_rationale">>,
    <<"moduleContentApplicationId", "module_content_application_id">>,
    <<"personFirstNames", "person_first_names">>,
    <<"personId", "person_id">>,
    <<"personLastName", "person_last_name">>,
    <<"personStudentNumber", "person_student_number">>,
    <<"studentApplicationId", "student_application_id">>,
    <<"studyFieldUrn", "study_field_urn">>,
    <<"studyRightId", "study_right_id">>,
    <<"verifierPersonId", "verifier_person_id">> }

BoolFields == { <<"misregistration", "misregistration">>, <<"primary", "primary">> }

NumberFields ==
  { <<"credits", "credits">>, <<"gradeId", "grade_id">>, <<"studyWeeks", "study_weeks">> }

\* the value, in thousandths, that a number literal of the records writes
LiteralValue(n) ==
  CASE n = "0" -> 0
    [] n = "-1" -> 0 - 1000
    [] n = "-0.5" -> 0 - 500
    [] n = "0.001" -> 1
    [] n = "0.25" -> 250
    [] n = "0.5" -> 500
    [] n = "1" -> 1000
    [] n = "1.0" -> 1000
    [] n = "1.5" -> 1500
    [] n = "2" -> 2000

\* the extracted LocalizedString has the three strings of the JSON object
SameLocalized(val, json) ==
  /\ val.en = GetAt(json, <<"en">>).s
  /\ val.fi = GetAt(json, <<"fi">>).s
  /\ val.sv = GetAt(json, <<"sv">>).s

\* the extracted number is the number the JSON literal writes
SameNumber(number, json) == as_f64(number) = LiteralValue(json.n)

\* the acceptor list of a record that has one
AcceptorItems(record) == GetAt(record, <<"acceptorPersons">>).items

\* C15: for a record that is parsed, every extracted string, boolean and
\* number is the value the record has under the camelCase key of the field
\* ("type" for the attainment type), at the top level and in the nested
\* structs, and the lists have the elements of the record in its order.
C15_ExtractionPreserves ==
  fn = "from_str" /\ IsOk(ret) =>
    /\ \A e \in StringFields : ret.val[e[2]] = GetAt(source, <<e[1]>>).s
    /\ \A e \in BoolFields : ret.val[e[2]] = GetAt(source, <<e[1]>>).b
    /\ \A e \in NumberFields : SameNumber(ret.val[e[2]], GetAt(source, <<e[1]>>))
    /\ ret.val.attainment_type = GetAt(source, <<"type">>).s
    /\ SameLocalized(ret.val.additional_info, GetAt(source, <<"additionalInfo">>))
    /\ ret.val.credit_transfer_info.educational_institution_urn
         = GetAt(source, <<"creditTransferInfo", "educationalInstitutionUrn">>).s
    /\ ret.val.credit_transfer_info.international_institution_urn
         = GetAt(source, <<"creditTransferInfo", "internationalInstitutionUrn">>).s
    /\ ret.val.credit_transfer_info.organisation
         = GetAt(source, <<"creditTransferInfo", "organisation">>).s
    /\ ret.val.grade_average.grade_scale_id
         = GetAt(source, <<"gradeAverage", "gradeScaleId">>).s
    /\ SameNumber(ret.val.grade_average.total_included_credits,
                  GetAt(source, <<"gradeAverage", "totalIncludedCredits">>))
    /\ SameNumber(ret.val.grade_average.value, GetAt(source, <<"gradeAverage", "value">>))
    /\ Len(ret.val.organisations) = Len(OrgItems(source))
    /\ \A i \in 1..Len(OrgItems(source)) :
         /\ ret.val.organisations[i].educational_institution_urn
              = GetAt(OrgItems(source)[i], <<"educationalInstitutionUrn">>).s
         /\ ret.val.organisations[i].organisation_id
              = GetAt(OrgItems(source)[i], <<"organisationId">>).s
         /\ ret.val.organisations[i].role_urn = GetAt(OrgItems(source)[i], <<"roleUrn">>).s
         /\ SameNumber(ret.val.organisations[i].share, GetAt(OrgItems(source)[i], <<"share">>))
    /\ Len(ret.val.acceptor_persons) = Len(AcceptorItems(source))
    /\ \A i \in 1..Len(AcceptorItems(source)) :
         /\ ret.val.acceptor_persons[i].person_id
              = GetAt(AcceptorItems(source)[i], <<"personId">>).s
         /\ SameLocalized(ret.val.acceptor_persons[i].text,
                          GetAt(AcceptorItems(source)[i], <<"text">>))
         /\ SameLocalized(ret.val.acceptor_persons[i].title,
                          GetAt(AcceptorItems(source)[i], <<"title">>))

\* a record with two organisations, of different roles and shares, is
\* parsed into the two in the order of the record
C15_Witness ==
  /\ fn = "from_str" /\ IsOk(ret)
  /\ Len(OrgItems(source)) = 2
  /\ RoleOf(OrgItems(source)[1]) = "urn:code:organisation-role:coordinating-organisation"
  /\ RoleOf(OrgItems(source)[2]) = "urn:code:organisation-role:responsible-organisation"
  /\ ret.val.organisations[1].role_urn = "urn:code:organisation-role:coordinating-organisation"
  /\ as_f64(ret.val.organisations[1].share) = 250
  /\ as_f64(ret.val.organisations[2].share) = 1500

----------------------------------------------------------------------------
(* C16, C19, C20: the contains relation of the credentials *)

RECURSIVE Follow(_, _)
\* the credential reached from c by following contains k times, None when
\* the chain ends before
Follow(c, k) ==
  IF k = 0 \/ c = None THEN c ELSE Follow(pool[c].contains, k - 1)

----------------------------------------------------------------------------
(* C21: the errors of the validators *)

\* C21: when a validator rejects a code, the unit validator as well as the
\* currency validator, the error it returns contains the rejected string.
C21_ErrorCarriesCode ==
  fn \in {"MDRunit::try_from", "MDRcurrency::try_from"} /\ IsErr(ret) =>
    Contains(ret.err, arg)

----------------------------------------------------------------------------
(* C22, C23, C24: the value types *)

\* the units the unit table pairs with a code
TableUnits == { MDRunit_arms[i][2] : i \in 1..Len(MDRunit_arms) }

C23_ValidIdentifier ==
  fn = "Identifier" /\ IsOk(ret) =>
    /\ ret.val.content # ""
    /\ ret.val.identifier_scheme_version_id # "" => ret.val.identifier_scheme_id # ""

\* C24: every Code that exists has a notation that a table of the registry
\* lists.
C24_ValidNotation ==
  fn = "Code" /\ IsOk(ret) =>
    ret.val.target_notation \in Range(MDRunit_patterns) \cup Range(MDRcurrency_arms)

----------------------------------------------------------------------------
(* C26: several records *)

\* C26: the outcome for each record of a batch is the outcome of that
\* record alone: a record that is extracted when it is read alone is
\* extracted, to the same attainment, whatever the other records of the
\* batch are.
C26_Independent ==
  fn = "from_str_vec" =>
    \A i \in 1..Len(source.items) :
      IsOk(from_str(source.items[i])) =>
        IsOk(ret) /\ ret.val[i] = from_str(source.items[i]).val

----------------------------------------------------------------------------
(* C28, C29: the two copies of the validators, and the unit table *)

\* two results of a validator agree: both are Ok of the same value, or
\* both are errors
Agree(r1, r2) ==
  /\ IsOk(r1) <=> IsOk(r2)
  /\ IsErr(r1) <=> IsErr(r2)
  /\ IsOk(r1) => r1.val = r2.val

\* C28: on every string the validators of europass_credential.rs give what
\* those of controlled_vocabularies.rs give: the same unit or an error, the
\* same currency code or an error.
C28_CopiesAgree ==
  /\ fn = "europass_credential::MDRunit::try_from" => Agree(ret, MDRunit_try_from(arg))
  /\ fn = "europass_credential::MDRcurrency::try_from" => Agree(ret, MDRcurrency_try_from(arg))
  /\ fn = "MDRunit::try_from" => Agree(ret, europass_credential_MDRunit_try_from(arg))
  /\ fn = "MDRcurrency::try_from" => Agree(ret, europass_credential_MDRcurrency_try_from(arg))

\* the second copy resolves "HUR" to the hour, as the first does
C28_Witness ==
  /\ fn = "europass_credential::MDRunit::try_from" /\ arg = "HUR"
  /\ IsOk(ret) /\ ret.val = "Hour" /\ MDRunit_try_from(arg) = Ok("Hour")

\* C29: the unit table pairs its 49 codes with the 49 variants of MDRunit
\* one to one: no other string resolves to the unit a code resolves to, and
\* every variant is the unit of exactly one code.
C29_UnitBijection ==
  fn = "MDRunit::try_from" =>
    /\ Cardinality(Range(MDRunit_patterns)) = 49 /\ Cardinality(MDRunit) = 49
    /\ IsOk(ret) =>
         /\ ret.val \in MDRunit
         /\ \A c \in VocabInputs : MDRunit_try_from(c) = ret => c = arg
    /\ \A unit \in MDRunit :
         Cardinality({ c \in Range(MDRunit_patterns) : MDRunit_try_from(c) = Ok(unit) }) = 1

\* "MIN" resolves to the minute
C29_Witness ==
  fn = "MDRunit::try_from" /\ arg = "MIN" /\ IsOk(ret) /\ ret.val = "Minute"

----------------------------------------------------------------------------
(* C30: finite instances *)

\* no struct expression can be written any more
NothingLeftToBuild ==
  \A i \in 1..Len(STRUCTS) :
    STRUCTS[i].name \in built \/ ~(Required(STRUCTS[i]) \subseteq built)

\* C30: every composite struct has a finite value: when every struct
\* expression that can be written has been written, a value of each struct
\* has been built, of the credential, the organisation and the
\* specifications among them.
C30_FiniteInstances ==
  NothingLeftToBuild =>
    {"EuropassCredential", "Organisation", "LearningSpecification",
     "LearningActivitySpecification", "AssessmentSpecification",
     "LearningAchievement"} \subseteq built

====
